---- MODULE Spec2Model ----
(***************************************************************************)
(* vsfs: a minimal block based filesystem.  The model follows the driver   *)
(* (FileSystem / Vsfs), the layout calculator, the directory iterator and  *)
(* Directory::create_file.  The device is kept region by region: the       *)
(* superblock, the two bitmaps (one entry per byte), the inode table (one  *)
(* entry per record) and the data blocks (the bytes before the trailing    *)
(* zeros of each block).                                                   *)
(***************************************************************************)
EXTENDS Integers, Sequences, FiniteSets, TLC

VARIABLES fs, prev, hist

vars == <<fs, prev, hist>>

----------------------------------------------------------------------------
(* Program constants *)

BLOCK_SIZE == 4096
IMMEDIATE_BLOCK_COUNT == 12
ROOT_INODE_IDX == 2
ROOT_UID == 0
MODE_DIRECTORY == 16384
MODE_755 == 493
BLOCK_NOT_SET == 0
INODE_SIZE == 4 + 4 + 2 + 8 + 8 + 8 + 8 + (4 * IMMEDIATE_BLOCK_COUNT) + 4
INODES_PER_BLOCK == BLOCK_SIZE \div INODE_SIZE
BASE_PHYSICAL_DIRECTORY_ENTRY_SIZE == 4 + 2
MAX_FILE_NAME_LEN == BLOCK_SIZE - BASE_PHYSICAL_DIRECTORY_ENTRY_SIZE
MAGIC == <<118, 115, 102, 115>>
U16_MAX == 65535

----------------------------------------------------------------------------
(* Results and integer helpers *)

Ok(v) == [ok |-> TRUE, err |-> "", val |-> v]

Err(e) == [ok |-> FALSE, err |-> e, val |-> 0]

Min(a, b) == IF a < b THEN a ELSE b

DivCeil(a, b) == (a + b - 1) \div b

Shr(b, n) == b \div (2 ^ n)

Shl1(n) == 2 ^ n

TestBit(b, n) == Shr(b, n) % 2

U16LE(n) == <<n % 256, (n \div 256) % 256>>

U32LE(n) == <<n % 256, (n \div 256) % 256, (n \div 65536) % 256, (n \div 16777216) % 256>>

\* every 64 bit value of the model is below 2^31
U64LE(n) == U32LE(n) \o U32LE(0)

ByteAt(bytes, i) == IF i < Len(bytes) THEN bytes[i + 1] ELSE 0

RECURSIVE TrimZeros(_)
TrimZeros(bytes) ==
    IF Len(bytes) > 0 /\ bytes[Len(bytes)] = 0
    THEN TrimZeros(SubSeq(bytes, 1, Len(bytes) - 1))
    ELSE bytes

----------------------------------------------------------------------------
(* Layout calculator *)

\* Layout::new that reserves no block for the superblock
Layout_new_NoSuperBlock(inode_count, data_block_count) ==
    LET inode_bitmap_block_count == DivCeil(DivCeil(inode_count, 8), BLOCK_SIZE)
        data_bitmap_block_count == DivCeil(DivCeil(data_block_count, 8), BLOCK_SIZE)
        inode_block_count == DivCeil(inode_count, INODES_PER_BLOCK)
        inode_bitmap_offset == 0
        data_bitmap_offset == inode_bitmap_offset + inode_bitmap_block_count * BLOCK_SIZE
        inode_offset == data_bitmap_offset + data_bitmap_block_count * BLOCK_SIZE
        data_offset == inode_offset + inode_block_count * BLOCK_SIZE
        size == data_offset + data_block_count * BLOCK_SIZE
    IN [inode_count |-> inode_count,
        data_block_count |-> data_block_count,
        inode_bitmap_block_count |-> inode_bitmap_block_count,
        data_bitmap_block_count |-> data_bitmap_block_count,
        inode_block_count |-> inode_block_count,
        inode_bitmap_offset |-> inode_bitmap_offset,
        data_bitmap_offset |-> data_bitmap_offset,
        inode_offset |-> inode_offset,
        data_offset |-> data_offset,
        size |-> size]

\* Layout::new with the inode table rounded down to whole blocks
Layout_new_Floor(inode_count, data_block_count) ==
    LET inode_bitmap_block_count == DivCeil(DivCeil(inode_count, 8), BLOCK_SIZE)
        data_bitmap_block_count == DivCeil(DivCeil(data_block_count, 8), BLOCK_SIZE)
        inode_block_count == inode_count \div INODES_PER_BLOCK
        inode_bitmap_offset == BLOCK_SIZE
        data_bitmap_offset == inode_bitmap_offset + inode_bitmap_block_count * BLOCK_SIZE
        inode_offset == data_bitmap_offset + data_bitmap_block_count * BLOCK_SIZE
        data_offset == inode_offset + inode_block_count * BLOCK_SIZE
        size == data_offset + data_block_count * BLOCK_SIZE
    IN [inode_count |-> inode_count,
        data_block_count |-> data_block_count,
        inode_bitmap_block_count |-> inode_bitmap_block_count,
        data_bitmap_block_count |-> data_bitmap_block_count,
        inode_block_count |-> inode_block_count,
        inode_bitmap_offset |-> inode_bitmap_offset,
        data_bitmap_offset |-> data_bitmap_offset,
        inode_offset |-> inode_offset,
        data_offset |-> data_offset,
        size |-> size]

\* Layout::new with the inode table laid over the data bitmap
Layout_new_Overlap(inode_count, data_block_count) ==
    LET inode_bitmap_block_count == DivCeil(DivCeil(inode_count, 8), BLOCK_SIZE)
        data_bitmap_block_count == DivCeil(DivCeil(data_block_count, 8), BLOCK_SIZE)
        inode_block_count == DivCeil(inode_count, INODES_PER_BLOCK)
        inode_bitmap_offset == BLOCK_SIZE
        data_bitmap_offset == inode_bitmap_offset + inode_bitmap_block_count * BLOCK_SIZE
        inode_offset == data_bitmap_offset
        data_offset == inode_offset + inode_block_count * BLOCK_SIZE
        size == data_offset + data_block_count * BLOCK_SIZE
    IN [inode_count |-> inode_count,
        data_block_count |-> data_block_count,
        inode_bitmap_block_count |-> inode_bitmap_block_count,
        data_bitmap_block_count |-> data_bitmap_block_count,
        inode_block_count |-> inode_block_count,
        inode_bitmap_offset |-> inode_bitmap_offset,
        data_bitmap_offset |-> data_bitmap_offset,
        inode_offset |-> inode_offset,
        data_offset |-> data_offset,
        size |-> size]

Layout_new(inode_count, data_block_count) ==
    LET inode_bitmap_block_count == DivCeil(DivCeil(inode_count, 8), BLOCK_SIZE)
        data_bitmap_block_count == DivCeil(DivCeil(data_block_count, 8), BLOCK_SIZE)
        inode_block_count == DivCeil(inode_count, INODES_PER_BLOCK)
        inode_bitmap_offset == BLOCK_SIZE
        data_bitmap_offset == inode_bitmap_offset + inode_bitmap_block_count * BLOCK_SIZE
        inode_offset == data_bitmap_offset + data_bitmap_block_count * BLOCK_SIZE
        data_offset == inode_offset + inode_block_count * BLOCK_SIZE
        size == data_offset + data_block_count * BLOCK_SIZE
    IN [inode_count |-> inode_count,
        data_block_count |-> data_block_count,
        inode_bitmap_block_count |-> inode_bitmap_block_count,
        data_bitmap_block_count |-> data_bitmap_block_count,
        inode_block_count |-> inode_block_count,
        inode_bitmap_offset |-> inode_bitmap_offset,
        data_bitmap_offset |-> data_bitmap_offset,
        inode_offset |-> inode_offset,
        data_offset |-> data_offset,
        size |-> size]

\* calc_inode_bitmap_addr that never leaves the first bitmap block
calc_inode_bitmap_addr_FirstBlock(layout, inode_idx) ==
    IF inode_idx >= layout.inode_count
    THEN Err("INodeIndexOutOfRange")
    ELSE LET idx == inode_idx \div 8
         IN Ok([addr |-> layout.inode_bitmap_offset,
                offset |-> idx % BLOCK_SIZE,
                bit |-> inode_idx % 8])

calc_inode_bitmap_addr(layout, inode_idx) ==
    IF inode_idx >= layout.inode_count
    THEN Err("INodeIndexOutOfRange")
    ELSE LET idx == inode_idx \div 8
         IN Ok([addr |-> layout.inode_bitmap_offset + (idx \div BLOCK_SIZE) * BLOCK_SIZE,
                offset |-> idx % BLOCK_SIZE,
                bit |-> inode_idx % 8])

\* calc_inode_block_addr packing one inode too many into a block
calc_inode_block_addr_Straddle(layout, inode_idx) ==
    IF inode_idx >= layout.inode_count
    THEN Err("INodeIndexOutOfRange")
    ELSE Ok([addr |-> layout.inode_offset + (inode_idx \div (INODES_PER_BLOCK + 1)) * BLOCK_SIZE,
             offset |-> (inode_idx % (INODES_PER_BLOCK + 1)) * INODE_SIZE])

calc_inode_block_addr(layout, inode_idx) ==
    IF inode_idx >= layout.inode_count
    THEN Err("INodeIndexOutOfRange")
    ELSE Ok([addr |-> layout.inode_offset + (inode_idx \div INODES_PER_BLOCK) * BLOCK_SIZE,
             offset |-> (inode_idx % INODES_PER_BLOCK) * INODE_SIZE])

calc_data_bitmap_addr(layout, data_block_idx) ==
    IF data_block_idx >= layout.data_block_count
    THEN Err("BlockOutOfRange")
    ELSE LET idx == data_block_idx \div 8
         IN Ok([addr |-> layout.data_bitmap_offset + (idx \div BLOCK_SIZE) * BLOCK_SIZE,
                offset |-> idx % BLOCK_SIZE,
                bit |-> data_block_idx % 8])

\* calc_data_addr accepting the index one past the last block
calc_data_addr_Inclusive(layout, data_block_idx) ==
    IF data_block_idx > layout.data_block_count
    THEN Err("BlockOutOfRange")
    ELSE Ok(layout.data_offset + data_block_idx * BLOCK_SIZE)

calc_data_addr(layout, data_block_idx) ==
    IF data_block_idx >= layout.data_block_count
    THEN Err("BlockOutOfRange")
    ELSE Ok(layout.data_offset + data_block_idx * BLOCK_SIZE)

----------------------------------------------------------------------------
(* Inodes *)

INode_new(mode, time) ==
    [uid |-> ROOT_UID, gid |-> ROOT_UID, mode |-> mode, size |-> 0,
     time |-> time, ctime |-> time, mtime |-> time,
     blocks |-> [i \in 1..IMMEDIATE_BLOCK_COUNT |-> 0],
     indirect_block |-> 0]

ZeroINode == INode_new(0, 0)

RECURSIVE FlattenU32(_)
FlattenU32(ns) ==
    IF Len(ns) = 0 THEN <<>> ELSE U32LE(Head(ns)) \o FlattenU32(Tail(ns))

INodeBytes(inode) ==
    U32LE(inode.uid) \o U32LE(inode.gid) \o U16LE(inode.mode) \o U64LE(inode.size)
    \o U64LE(inode.time) \o U64LE(inode.ctime) \o U64LE(inode.mtime)
    \o FlattenU32(inode.blocks) \o U32LE(inode.indirect_block)

----------------------------------------------------------------------------
(* The device, region by region.  A position in the inode bitmap or in the *)
(* data bitmap is the byte's distance from the start of its region; a      *)
(* position in the inode table is the number of the record the byte range  *)
(* (addr + offset) falls on; a data block is named by its address.         *)

BitmapPos(region_offset, addr, offset) == (addr - region_offset) + offset

INodePos(layout, addr, offset) ==
    ((addr - layout.inode_offset) \div BLOCK_SIZE) * INODES_PER_BLOCK + (offset \div INODE_SIZE)

DataPos(layout, addr) == (addr - layout.data_offset) \div BLOCK_SIZE

GetByte(f, i) == IF i \in DOMAIN f THEN f[i] ELSE 0

SuperBlockBytes(sb) == sb.magic \o U32LE(sb.inode_count) \o U32LE(sb.data_block_count)

\* the byte at `offset` of the device block that starts at `addr`
DeviceByte(f, addr, offset) ==
    LET l == f.layout IN
    IF addr < l.inode_bitmap_offset THEN ByteAt(SuperBlockBytes(f.sb), offset)
    ELSE IF addr < l.data_bitmap_offset
         THEN GetByte(f.ibm, BitmapPos(l.inode_bitmap_offset, addr, offset))
    ELSE IF addr < l.inode_offset
         THEN GetByte(f.dbm, BitmapPos(l.data_bitmap_offset, addr, offset))
    ELSE IF addr < l.data_offset
         THEN LET pos == INodePos(l, addr, offset)
              IN IF offset < INODES_PER_BLOCK * INODE_SIZE /\ pos \in DOMAIN f.itab
                 THEN ByteAt(INodeBytes(f.itab[pos]), offset % INODE_SIZE)
                 ELSE 0
    ELSE IF addr < l.size THEN ByteAt(f.dblk[DataPos(l, addr)], offset)
    ELSE 0

----------------------------------------------------------------------------
(* Filesystem driver: inode read / write / allocation *)

\* an is_inode_idx_readable that tests (self.block[offset] >> bit) != 0
is_inode_idx_readable_NonZero(f, inode_idx) ==
    LET a == calc_inode_bitmap_addr(f.layout, inode_idx) IN
    IF ~a.ok THEN a
    ELSE Ok(Shr(DeviceByte(f, a.val.addr, a.val.offset), a.val.bit) # 0)

\* (self.block[offset] >> bit) == 1
is_inode_idx_readable(f, inode_idx) ==
    LET a == calc_inode_bitmap_addr(f.layout, inode_idx) IN
    IF ~a.ok THEN a
    ELSE Ok(Shr(DeviceByte(f, a.val.addr, a.val.offset), a.val.bit) = 1)

read_inode(f, inode_idx) ==
    LET readable == is_inode_idx_readable(f, inode_idx) IN
    IF ~readable.ok THEN readable
    ELSE IF ~readable.val THEN Err("INodeIndexEmpty")
    ELSE LET a == calc_inode_block_addr(f.layout, inode_idx) IN
         IF ~a.ok THEN a
         ELSE IF a.val.offset + INODE_SIZE > BLOCK_SIZE THEN Err("SizeError")
         ELSE Ok(f.itab[INodePos(f.layout, a.val.addr, a.val.offset)])

\* the bitmap update of write_inode: self.block[offset] = 1 << bit
write_inode_bitmap(ibm, pos, bit) == [ibm EXCEPT ![pos] = Shl1(bit)]

\* a write_inode that fills self.block with the record alone instead of
\* reading the block of the inode table first: the other records of the block
\* are written back as zeros
write_inode_NoRead(f, inode_idx, inode) ==
    LET a == calc_inode_block_addr(f.layout, inode_idx) IN
    IF ~a.ok THEN [fs |-> f, r |-> a]
    ELSE IF a.val.offset + INODE_SIZE > BLOCK_SIZE THEN [fs |-> f, r |-> Err("SizeError")]
    ELSE LET pos == INodePos(f.layout, a.val.addr, a.val.offset)
             f1 == [f EXCEPT !.itab = [j \in DOMAIN f.itab |->
                        IF j = pos THEN inode
                        ELSE IF j \div INODES_PER_BLOCK = pos \div INODES_PER_BLOCK THEN ZeroINode
                        ELSE f.itab[j]]]
             b == calc_inode_bitmap_addr(f1.layout, inode_idx)
         IN IF ~b.ok THEN [fs |-> f1, r |-> b]
            ELSE LET bpos == BitmapPos(f1.layout.inode_bitmap_offset, b.val.addr, b.val.offset)
                     f2 == [f1 EXCEPT !.ibm = write_inode_bitmap(f1.ibm, bpos, b.val.bit)]
                 IN [fs |-> IF inode_idx = ROOT_INODE_IDX
                            THEN [f2 EXCEPT !.root_inode = inode]
                            ELSE f2,
                     r |-> Ok(0)]

\* a write_inode without the update of self.root_inode
write_inode_NoCache(f, inode_idx, inode) ==
    LET a == calc_inode_block_addr(f.layout, inode_idx) IN
    IF ~a.ok THEN [fs |-> f, r |-> a]
    ELSE IF a.val.offset + INODE_SIZE > BLOCK_SIZE THEN [fs |-> f, r |-> Err("SizeError")]
    ELSE LET f1 == [f EXCEPT !.itab[INodePos(f.layout, a.val.addr, a.val.offset)] = inode]
             b == calc_inode_bitmap_addr(f1.layout, inode_idx)
         IN IF ~b.ok THEN [fs |-> f1, r |-> b]
            ELSE [fs |-> [f1 EXCEPT !.ibm = write_inode_bitmap(f1.ibm,
                              BitmapPos(f1.layout.inode_bitmap_offset, b.val.addr, b.val.offset),
                              b.val.bit)],
                  r |-> Ok(0)]

\* returns [fs, r]
write_inode(f, inode_idx, inode) ==
    LET a == calc_inode_block_addr(f.layout, inode_idx) IN
    IF ~a.ok THEN [fs |-> f, r |-> a]
    ELSE IF a.val.offset + INODE_SIZE > BLOCK_SIZE THEN [fs |-> f, r |-> Err("SizeError")]
    ELSE LET f1 == [f EXCEPT !.itab[INodePos(f.layout, a.val.addr, a.val.offset)] = inode]
             b == calc_inode_bitmap_addr(f1.layout, inode_idx)
         IN IF ~b.ok THEN [fs |-> f1, r |-> b]
            ELSE LET pos == BitmapPos(f1.layout.inode_bitmap_offset, b.val.addr, b.val.offset)
                     f2 == [f1 EXCEPT !.ibm = write_inode_bitmap(f1.ibm, pos, b.val.bit)]
                 IN [fs |-> IF inode_idx = ROOT_INODE_IDX
                            THEN [f2 EXCEPT !.root_inode = inode]
                            ELSE f2,
                     r |-> Ok(0)]

\* The bit that turn i of the scan of create_inode tests.  The loop reads
\* the next device block, consecutive from inode_bitmap_offset, and resets
\* byte_offset and bit_offset whenever i is a multiple of INODES_PER_BLOCK:
\* at turn i it holds block number i / INODES_PER_BLOCK, byte_offset is
\* (i % INODES_PER_BLOCK) / 8 and bit_offset is (i % INODES_PER_BLOCK) % 8.
create_inode_bit(f, i) ==
    TestBit(DeviceByte(f, f.layout.inode_bitmap_offset + (i \div INODES_PER_BLOCK) * BLOCK_SIZE,
                       (i % INODES_PER_BLOCK) \div 8),
            (i % INODES_PER_BLOCK) % 8)

\* The scan of create_inode: inode_idx after the loop, the last i in
\* 0..inode_count whose bit tested 0; -1 for None.
create_inode_scan(f) ==
    LET hits == {i \in 0..(f.layout.inode_count - 1) : create_inode_bit(f, i) = 0}
    IN IF hits = {} THEN 0 - 1
       ELSE CHOOSE i \in hits : \A j \in hits : j <= i

\* returns [fs, r]
create_inode(f, inode) ==
    LET inode_idx == create_inode_scan(f) IN
    IF inode_idx # -1
    THEN LET w == write_inode(f, inode_idx, inode)
         IN IF w.r.ok THEN [fs |-> w.fs, r |-> Ok(inode_idx)] ELSE w
    ELSE [fs |-> f, r |-> Err("OutOfINodes")]

----------------------------------------------------------------------------
(* Filesystem driver: data blocks *)

\* a bitmap update that is one bit off: 1 << (bit + 1)
write_data_block_bitmap_NextBit(dbm, pos, bit) == [dbm EXCEPT ![pos] = Shl1(bit + 1)]

\* the bitmap update of write_data_block: self.block[offset] = 1 << bit
write_data_block_bitmap(dbm, pos, bit) == [dbm EXCEPT ![pos] = Shl1(bit)]

\* returns [fs, r]; `block` holds the bytes before the block's trailing zeros
write_data_block(f, data_block_idx, block) ==
    LET a == calc_data_addr(f.layout, data_block_idx) IN
    IF ~a.ok THEN [fs |-> f, r |-> a]
    ELSE LET f1 == [f EXCEPT !.dblk[DataPos(f.layout, a.val)] = TrimZeros(block)]
             b == calc_data_bitmap_addr(f1.layout, data_block_idx)
         IN IF ~b.ok THEN [fs |-> f1, r |-> b]
            ELSE LET pos == BitmapPos(f1.layout.data_bitmap_offset, b.val.addr, b.val.offset)
                 IN [fs |-> [f1 EXCEPT !.dbm = write_data_block_bitmap(f1.dbm, pos, b.val.bit)],
                     r |-> Ok(0)]

calc_data_block_idx(inode, offset) ==
    IF offset % BLOCK_SIZE # 0 THEN Err("InvalidOffset")
    ELSE LET block_idx == offset \div BLOCK_SIZE IN
         IF block_idx < IMMEDIATE_BLOCK_COUNT
         THEN Ok(inode.blocks[block_idx + 1])
         ELSE Err("Panic")

\* FileSystem::read_block after its read_inode: Ok([len, block, read]) with
\* the number of bytes of the inode's data that the block holds
read_block_of(f, inode, offset) ==
    IF ~inode.ok THEN inode
    ELSE IF offset > inode.val.size THEN Ok([len |-> 0, block |-> <<>>, read |-> FALSE])
    ELSE LET d == calc_data_block_idx(inode.val, offset) IN
         IF ~d.ok THEN d
         ELSE LET a == calc_data_addr(f.layout, d.val) IN
              IF ~a.ok THEN a
              ELSE Ok([len |-> Min(inode.val.size - offset, BLOCK_SIZE),
                       block |-> f.dblk[DataPos(f.layout, a.val)],
                       read |-> TRUE])

read_block(f, inode_idx, offset) == read_block_of(f, read_inode(f, inode_idx), offset)

----------------------------------------------------------------------------
(* Directory entries and the directory iterator *)

\* a PhysicalDirectoryEntry::write that counts one byte too many in name_len
PhysicalDirectoryEntry_write_LenOff(buf_len, inode_idx, name) ==
    IF Len(name) > U16_MAX THEN Err("SizeError")
    ELSE IF BASE_PHYSICAL_DIRECTORY_ENTRY_SIZE + Len(name) > buf_len THEN Err("SizeError")
    ELSE Ok(U32LE(inode_idx) \o U16LE(Len(name) + 1) \o name)

\* PhysicalDirectoryEntry::write into a buffer of buf_len bytes
PhysicalDirectoryEntry_write(buf_len, inode_idx, name) ==
    IF Len(name) > U16_MAX THEN Err("SizeError")
    ELSE IF BASE_PHYSICAL_DIRECTORY_ENTRY_SIZE + Len(name) > buf_len THEN Err("SizeError")
    ELSE Ok(U32LE(inode_idx) \o U16LE(Len(name)) \o name)

\* PhysicalDirectoryEntry::read_from_bytes of the 6 bytes at block_offset
PhysicalDirectoryEntry_read(block, block_offset) ==
    [inode_idx |-> ByteAt(block, block_offset) + 256 * ByteAt(block, block_offset + 1)
                   + 65536 * ByteAt(block, block_offset + 2)
                   + 16777216 * ByteAt(block, block_offset + 3),
     name_len |-> ByteAt(block, block_offset + 4) + 256 * ByteAt(block, block_offset + 5)]

DirectoryIterator_new(f, inode_idx) ==
    LET rb == read_block(f, inode_idx, 0) IN
    IF ~rb.ok THEN rb
    ELSE Ok([offset |-> 0, block_offset |-> 0, block_size |-> rb.val.len,
             block |-> rb.val.block])

\* what the iterator does with a tombstone header: `continue`
skip_tombstone(block_offset, name_len) == block_offset

\* From block_offset on the block is all zero, so every header there is a
\* tombstone with an empty name: the number of turns of the loop that read
\* one, up to the turn that leaves the block or reaches block_size.
ZeroRun(block_offset, block_size) ==
    LET to_turn == IF BLOCK_SIZE - block_offset < BASE_PHYSICAL_DIRECTORY_ENTRY_SIZE THEN 0
                   ELSE (BLOCK_SIZE - BASE_PHYSICAL_DIRECTORY_ENTRY_SIZE - block_offset)
                            \div BASE_PHYSICAL_DIRECTORY_ENTRY_SIZE + 1
        to_size == IF block_offset + BASE_PHYSICAL_DIRECTORY_ENTRY_SIZE > block_size THEN 0
                   ELSE (block_size - BASE_PHYSICAL_DIRECTORY_ENTRY_SIZE - block_offset)
                            \div BASE_PHYSICAL_DIRECTORY_ENTRY_SIZE + 1
    IN Min(to_turn, to_size)

NoEntry == [some |-> FALSE, inode_idx |-> 0, name_len |-> 0, name |-> <<>>]

RECURSIVE read_next_physical_directory_entry(_, _, _)

\* The turns of the loop of read_next_physical_directory_entry with the
\* block at hand: the header at block_offset, then the name; a tombstone
\* header is another turn of the loop.  Returns [it, r].
RECURSIVE read_entry(_, _, _)
read_entry(f, inode_idx, it) ==
    IF it.block_offset >= Len(it.block) /\ ZeroRun(it.block_offset, it.block_size) > 0
    THEN read_next_physical_directory_entry(f, inode_idx,
             [it EXCEPT !.block_offset = it.block_offset
                   + ZeroRun(it.block_offset, it.block_size) * BASE_PHYSICAL_DIRECTORY_ENTRY_SIZE])
    ELSE LET end_offset == it.block_offset + BASE_PHYSICAL_DIRECTORY_ENTRY_SIZE IN
         IF end_offset > it.block_size THEN [it |-> it, r |-> Ok(NoEntry)]
         ELSE IF end_offset > BLOCK_SIZE THEN [it |-> it, r |-> Err("BlockOutOfRange")]
         ELSE LET entry == PhysicalDirectoryEntry_read(it.block, it.block_offset)
                  it2 == [it EXCEPT !.block_offset = end_offset]
              IN IF entry.inode_idx = 0
                 THEN read_next_physical_directory_entry(f, inode_idx,
                          [it2 EXCEPT !.block_offset = skip_tombstone(end_offset, entry.name_len)])
                 ELSE IF it2.block_offset + entry.name_len > BLOCK_SIZE
                      THEN [it |-> it2, r |-> Err("BlockOutOfRange")]
                 ELSE LET it3 == [it2 EXCEPT !.block_offset = it2.block_offset + entry.name_len] IN
                      IF entry.name_len > MAX_FILE_NAME_LEN
                      THEN [it |-> it3, r |-> Err("SizeError")]
                      ELSE [it |-> it3,
                            r |-> Ok([some |-> TRUE, inode_idx |-> entry.inode_idx,
                                      name_len |-> entry.name_len,
                                      name |-> [k \in 1..entry.name_len |->
                                                  ByteAt(it2.block, it2.block_offset + k - 1)]])]

\* the turn of the loop that finds no room for a header in the block: the
\* next block of the directory is read (rb) and the loop goes on in it
next_block(f, inode_idx, it, rb) ==
    IF ~rb.ok
    THEN [it |-> [it EXCEPT !.offset = it.offset + BLOCK_SIZE, !.block_offset = 0], r |-> rb]
    ELSE read_entry(f, inode_idx,
                    [offset |-> it.offset + BLOCK_SIZE, block_offset |-> 0,
                     block_size |-> rb.val.len,
                     block |-> IF rb.val.read THEN rb.val.block ELSE it.block])

\* returns [it, r]: r is Err, Ok(NoEntry) or Ok of an entry
read_next_physical_directory_entry(f, inode_idx, it) ==
    IF BLOCK_SIZE - it.block_offset < BASE_PHYSICAL_DIRECTORY_ENTRY_SIZE
    THEN next_block(f, inode_idx, it, read_block(f, inode_idx, it.offset + BLOCK_SIZE))
    ELSE read_entry(f, inode_idx, it)

\* DirectoryIterator::read_next on the physical entry e: the entry with its
\* resolved inode
resolve_entry(f, e) ==
    IF ~e.r.ok \/ ~e.r.val.some THEN e
    ELSE LET entry_inode == read_inode(f, e.r.val.inode_idx) IN
         IF ~entry_inode.ok THEN [it |-> e.it, r |-> entry_inode]
         ELSE [it |-> e.it,
               r |-> Ok([some |-> TRUE, inode_idx |-> e.r.val.inode_idx,
                         name_len |-> e.r.val.name_len, name |-> e.r.val.name,
                         inode |-> entry_inode.val])]

\* DirectoryIterator::read_next
read_next(f, inode_idx, it) ==
    resolve_entry(f, read_next_physical_directory_entry(f, inode_idx, it))

\* DirectoryEntry::is_dir
is_dir(entry) == (entry.inode.mode \div MODE_DIRECTORY) % 2 = 1

\* DirectoryEntry::to_dir: [some, inode_idx, inode]
to_dir(entry) ==
    IF is_dir(entry)
    THEN [some |-> TRUE, inode_idx |-> entry.inode_idx, inode |-> entry.inode]
    ELSE [some |-> FALSE, inode_idx |-> 0, inode |-> ZeroINode]

\* Directory::mode
Directory_mode(inode) == inode.mode % 512

\* DirectoryEntry::file_name: names are ASCII, a byte above 127 is no UTF-8
file_name(entry) ==
    IF \E k \in 1..Len(entry.name) : entry.name[k] > 127
    THEN Err("Utf8Error")
    ELSE Ok(entry.name)

RECURSIVE iter_collect(_, _, _, _)

\* one turn of `for entry in dir.iter(fs)? { entry? ... }` on the item n
iter_item(f, inode_idx, n, acc) ==
    IF ~n.r.ok THEN [entries |-> acc, err |-> n.r.err, consumed |-> n.it.offset + n.it.block_offset]
    ELSE IF ~n.r.val.some
         THEN [entries |-> acc, err |-> "", consumed |-> n.it.offset + n.it.block_offset]
    ELSE iter_collect(f, inode_idx, n.it, Append(acc, n.r.val))

\* `for entry in dir.iter(fs)? { entry? ... }`: the entries yielded up to the
\* end of the directory or the first error; `consumed` is the byte offset the
\* iterator stopped at
iter_collect(f, inode_idx, it, acc) ==
    iter_item(f, inode_idx, read_next(f, inode_idx, it), acc)

iter_all(f, inode_idx) ==
    LET it == DirectoryIterator_new(f, inode_idx) IN
    IF ~it.ok THEN [entries |-> <<>>, err |-> it.err, consumed |-> 0]
    ELSE iter_collect(f, inode_idx, it.val, <<>>)

RECURSIVE exists_loop(_, _, _, _)

\* one turn of the loop of Directory::exists on the item n
exists_item(f, inode_idx, n, name) ==
    IF ~n.r.ok THEN n.r
    ELSE IF ~n.r.val.some THEN Ok(FALSE)
    ELSE LET fname == file_name(n.r.val) IN
         IF ~fname.ok THEN fname
         ELSE IF fname.val = name THEN Ok(TRUE)
         ELSE exists_loop(f, inode_idx, n.it, name)

exists_loop(f, inode_idx, it, name) ==
    exists_item(f, inode_idx, read_next(f, inode_idx, it), name)

\* an exists that gives up at the first entry of another name
exists_FirstOnly(f, inode_idx, name) ==
    LET it == DirectoryIterator_new(f, inode_idx) IN
    IF ~it.ok THEN it
    ELSE LET n == read_next(f, inode_idx, it.val) IN
         IF ~n.r.ok THEN n.r
         ELSE IF ~n.r.val.some THEN Ok(FALSE)
         ELSE LET fname == file_name(n.r.val) IN
              IF ~fname.ok THEN fname ELSE Ok(fname.val = name)

\* Directory::exists
exists(f, inode_idx, name) ==
    LET it == DirectoryIterator_new(f, inode_idx) IN
    IF ~it.ok THEN it ELSE exists_loop(f, inode_idx, it.val, name)

----------------------------------------------------------------------------
(* Data block allocation and inode growth *)

None == 0 - 1

\* DataBlockIndex::from_u32
DataBlockIndex_from_u32(v) == IF v = BLOCK_NOT_SET THEN None ELSE v

\* From<PhysicalINode> for INode: 0 on disk is an unset slot
INode_from(physical) ==
    [physical EXCEPT
        !.blocks = [i \in 1..IMMEDIATE_BLOCK_COUNT |-> DataBlockIndex_from_u32(physical.blocks[i])],
        !.indirect_block = DataBlockIndex_from_u32(physical.indirect_block)]

\* From<INode> for PhysicalINode: unwrap_or(BLOCK_NOT_SET)
PhysicalINode_from(inode) ==
    [inode EXCEPT
        !.blocks = [i \in 1..IMMEDIATE_BLOCK_COUNT |->
                      IF inode.blocks[i] = None THEN BLOCK_NOT_SET ELSE inode.blocks[i]],
        !.indirect_block = IF inode.indirect_block = None THEN BLOCK_NOT_SET
                           ELSE inode.indirect_block]

\* an allocate_data_block that stores 1 << i in the bitmap byte
allocate_mark_Clobber(b, i) == Shl1(i)

\* the bitmap update of allocate_data_block: b | (1 << i)
allocate_mark(b, i) == IF TestBit(b, i) = 1 THEN b ELSE b + Shl1(i)

\* a scan that takes the highest clear bit of the byte
FirstClearBit_Last(b) == CHOOSE i \in 0..7 : TestBit(b, i) = 0 /\ \A j \in (i + 1)..7 : TestBit(b, j) = 1

\* the lowest clear bit of a byte that is not 0xff
FirstClearBit(b) == CHOOSE i \in 0..7 : TestBit(b, i) = 0 /\ \A j \in 0..(i - 1) : TestBit(b, j) = 1

RECURSIVE allocate_data_block_scan(_, _, _, _)

\* the turn of the scan on the bitmap byte b at block_offset of bitmap block
\* data_block_block_idx, the first bit of which is block block_idx
allocate_data_block_byte(f, data_block_block_idx, block_offset, block_idx, b) ==
    IF b # 255
    THEN LET i == FirstClearBit(b)
             found == block_idx + i
             pos == data_block_block_idx * BLOCK_SIZE + block_offset
             f1 == [f EXCEPT !.dbm[pos] = allocate_mark(b, i)]
             a == calc_data_addr(f1.layout, found)
         IN IF ~a.ok THEN [fs |-> f1, r |-> a]
            ELSE [fs |-> [f1 EXCEPT !.dblk[DataPos(f1.layout, a.val)] = <<>>],
                  r |-> Ok(found)]
    ELSE IF block_idx + 8 >= f.layout.data_block_count
         THEN [fs |-> f, r |-> Err("OutOfDiskSpaceError")]
         ELSE allocate_data_block_scan(f, data_block_block_idx, block_offset + 1,
                                       block_idx + 8)

\* The scan of allocate_data_block over the bytes of one bitmap block after
\* another; returns [fs, r]
allocate_data_block_scan(f, data_block_block_idx, block_offset, block_idx) ==
    IF data_block_block_idx >= f.layout.data_bitmap_block_count
    THEN [fs |-> f, r |-> Err("OutOfDiskSpaceError")]
    ELSE IF block_offset >= BLOCK_SIZE
    THEN allocate_data_block_scan(f, data_block_block_idx + 1, 0, block_idx)
    ELSE allocate_data_block_byte(f, data_block_block_idx, block_offset, block_idx,
             DeviceByte(f, f.layout.data_bitmap_offset + data_block_block_idx * BLOCK_SIZE,
                        block_offset))

\* returns [fs, r]
allocate_data_block(f) == allocate_data_block_scan(f, 0, 0, 0)

RECURSIVE grow_slots(_, _, _, _)

\* the unset slot i takes the block the allocation `a` returned
grow_slot(inode, i, n, a) ==
    IF ~a.r.ok THEN [fs |-> a.fs, inode |-> inode, r |-> a.r]
    ELSE grow_slots(a.fs, [inode EXCEPT !.blocks[i] = a.r.val], i + 1, n)

\* The loop of grow_inode_data_size over the direct slots; returns
\* [fs, inode, r]
grow_slots(f, inode, i, n) ==
    IF i > n THEN [fs |-> f, inode |-> inode, r |-> Ok(0)]
    ELSE IF inode.blocks[i] # None THEN grow_slots(f, inode, i + 1, n)
    ELSE grow_slot(inode, i, n, allocate_data_block(f))

\* the loop past the direct slots (g): todo!()
grow_indirect(required_number_of_data_blocks, g) ==
    IF ~g.r.ok THEN g
    ELSE IF required_number_of_data_blocks > IMMEDIATE_BLOCK_COUNT
         THEN [fs |-> g.fs, inode |-> g.inode, r |-> Err("Panic")]
         ELSE g

\* returns [fs, inode, r]
grow_inode_data_size(f, inode, new_size) ==
    IF new_size < inode.size
    THEN [fs |-> f, inode |-> inode, r |-> Err("Other")]
    ELSE grow_indirect(DivCeil(new_size, BLOCK_SIZE),
                       grow_slots(f, inode, 1,
                                  Min(DivCeil(new_size, BLOCK_SIZE), IMMEDIATE_BLOCK_COUNT)))

\* the end of Vsfs::write, after the inode was grown (g): todo!()
Vsfs_write_end(g) ==
    IF ~g.r.ok THEN [fs |-> g.fs, r |-> g.r]
    ELSE [fs |-> g.fs, r |-> Err("Panic")]

\* Vsfs::write after its read_inode (p): write_pos is End(0)
Vsfs_write_inode(f, buf_len, p) ==
    IF ~p.ok THEN [fs |-> f, r |-> p]
    ELSE Vsfs_write_end(grow_inode_data_size(f, INode_from(p.val), p.val.size + buf_len))

\* Vsfs::write(inode_idx, ReadWritePos::End(0), buf) with a buffer of buf_len
\* bytes; returns [fs, r]
Vsfs_write(f, inode_idx, buf_len) ==
    IF buf_len = 0 THEN [fs |-> f, r |-> Ok(0)]
    ELSE Vsfs_write_inode(f, buf_len, read_inode(f, inode_idx))

\* File::write, File::write_all, File::flush: todo!()
File_write(f, buf_len) == [fs |-> f, r |-> Err("Panic")]

----------------------------------------------------------------------------
(* Appending to an inode's data, Directory::create_file, format_volume *)

Max(a, b) == IF a > b THEN a ELSE b

\* bytes [lo, hi) of a block replaced by the bytes of buf from buf_start on
PatchBlock(old, lo, hi, buf, buf_start) ==
    LET n == Max(Len(old), IF Len(buf) > buf_start
                           THEN lo + Min(hi - lo, Len(buf) - buf_start) ELSE 0)
    IN TrimZeros([k \in 1..n |-> IF k - 1 >= lo /\ k - 1 < hi
                                 THEN ByteAt(buf, buf_start + (k - 1 - lo))
                                 ELSE ByteAt(old, k - 1)])

\* the bytes [offset, end) of the inode's data written slot by slot
RECURSIVE append_blocks(_, _, _, _, _, _)
append_blocks(f, inode, slot, offset, end, buf) ==
    IF slot * BLOCK_SIZE >= end THEN f
    ELSE LET lo == Max(offset, slot * BLOCK_SIZE) - slot * BLOCK_SIZE
             hi == Min(end, (slot + 1) * BLOCK_SIZE) - slot * BLOCK_SIZE
             a == calc_data_addr(f.layout, inode.blocks[slot + 1])
             pos == DataPos(f.layout, a.val)
             f1 == [f EXCEPT !.dblk[pos] =
                       PatchBlock(f.dblk[pos], lo, hi, buf, slot * BLOCK_SIZE + lo - offset)]
         IN append_blocks(f1, inode, slot + 1, offset, end, buf)

\* the buffer written into the grown inode g.inode, which is persisted
append_write(inode_idx, buf, size, required_data_size, g) ==
    IF ~g.r.ok THEN [fs |-> g.fs, r |-> g.r]
    ELSE write_inode(append_blocks(g.fs, g.inode, size \div BLOCK_SIZE, size,
                                   required_data_size, buf),
                     inode_idx,
                     PhysicalINode_from([g.inode EXCEPT !.size = required_data_size]))

\* the inode p grown to hold buf_len bytes more
append_grow(f, inode_idx, buf, buf_len, p) ==
    IF ~p.ok THEN [fs |-> f, r |-> p]
    ELSE append_write(inode_idx, buf, p.val.size, p.val.size + buf_len,
                      grow_inode_data_size(f, INode_from(p.val), p.val.size + buf_len))

\* FileSystem::append(inode_idx, buf): buf_len bytes, of which `buf` holds
\* those before the trailing zeros, are written at the end of the inode's
\* data, the inode grows to hold them and is persisted; returns [fs, r]
append(f, inode_idx, buf, buf_len) ==
    IF buf_len = 0 THEN [fs |-> f, r |-> Ok(0)]
    ELSE append_grow(f, inode_idx, buf, buf_len, read_inode(f, inode_idx))

\* the mode Directory::create_file gives the new inode
create_file_mode(mode) == MODE_755 + MODE_DIRECTORY

\* the number of bytes of its buffer that create_file appends: &buf
create_file_append_len(name) == BLOCK_SIZE

\* the entry of the new inode (c) written and appended to the directory
create_file_entry(dir_idx, options, file_inode, c) ==
    IF ~c.r.ok THEN c
    ELSE LET buf == U32LE(c.r.val) \o U16LE(Len(options.file_name) % (U16_MAX + 1))
                    \o options.file_name
             a == append(c.fs, dir_idx, buf, create_file_append_len(options.file_name))
         IN IF ~a.r.ok THEN a
            ELSE [fs |-> a.fs, r |-> Ok([inode_idx |-> c.r.val, inode |-> file_inode])]

\* the new inode, after exists (e)
create_file_inode(f, dir_idx, options, file_inode, e) ==
    IF ~e.ok THEN [fs |-> f, r |-> e]
    ELSE IF e.val THEN [fs |-> f, r |-> Err("FileExists")]
    ELSE create_file_entry(dir_idx, options, file_inode, create_inode(f, file_inode))

\* Directory::create_file on the directory dir_idx; returns [fs, r], r.val
\* being the File: [inode_idx, inode]
create_file(f, dir_idx, options) ==
    IF Len(options.file_name) >= MAX_FILE_NAME_LEN
    THEN [fs |-> f, r |-> Err("FileNameTooLong")]
    ELSE create_file_inode(f, dir_idx, options,
             [INode_new(create_file_mode(options.mode), options.time)
                EXCEPT !.uid = options.uid, !.gid = options.gid, !.size = 0],
             exists(f, dir_idx, options.file_name))

DotName == <<46>>

DotDotName == <<46, 46>>

\* a blank volume whose superblock holds the two counts exchanged
MountBlank_SwappedCounts(inode_count, data_block_count) ==
    [sb |-> [magic |-> MAGIC, inode_count |-> data_block_count,
             data_block_count |-> inode_count],
     layout |-> Layout_new(inode_count, data_block_count),
     ibm |-> [i \in 0..(DivCeil(inode_count, 8) - 1) |-> 0],
     dbm |-> [i \in 0..(DivCeil(data_block_count, 8) - 1) |-> 0],
     itab |-> [i \in 0..(inode_count - 1) |-> ZeroINode],
     dblk |-> [i \in 0..(data_block_count - 1) |-> <<>>],
     root_inode |-> INode_new(MODE_755, 0)]

\* FileSystem::new with read_root_inode = false on the zeroed regions
MountBlank(inode_count, data_block_count) ==
    [sb |-> [magic |-> MAGIC, inode_count |-> inode_count,
             data_block_count |-> data_block_count],
     layout |-> Layout_new(inode_count, data_block_count),
     ibm |-> [i \in 0..(DivCeil(inode_count, 8) - 1) |-> 0],
     dbm |-> [i \in 0..(DivCeil(data_block_count, 8) - 1) |-> 0],
     itab |-> [i \in 0..(inode_count - 1) |-> ZeroINode],
     dblk |-> [i \in 0..(data_block_count - 1) |-> <<>>],
     root_inode |-> INode_new(MODE_755, 0)]

\* the number of blocks format_volume writes: block_count
format_block_count(layout, data_block_count) ==
    1 + layout.inode_bitmap_block_count + layout.data_bitmap_block_count
      + layout.inode_block_count + data_block_count

\* the end of format_volume, after the root inode is written (w):
\* Ok(block_count * BLOCK_SIZE)
format_result(w) ==
    IF ~w.r.ok THEN w
    ELSE [fs |-> w.fs,
          r |-> Ok(format_block_count(Layout_new(w.fs.sb.inode_count, w.fs.sb.data_block_count),
                                      w.fs.sb.data_block_count) * BLOCK_SIZE)]

\* the root inode of format_volume, after the root directory data is
\* written (w)
format_root(time, data_size, w) ==
    IF ~w.r.ok THEN w
    ELSE format_result(write_inode(w.fs, ROOT_INODE_IDX,
                                   [INode_new(MODE_755 + MODE_DIRECTORY, time)
                                      EXCEPT !.uid = ROOT_UID, !.gid = ROOT_UID,
                                             !.size = data_size, !.blocks[1] = 0]))

\* returns [fs, r]: every block of the new layout is written with zeros,
\* then the root directory
format_volume(inode_count, data_block_count, time) ==
    LET dot == PhysicalDirectoryEntry_write(BLOCK_SIZE, ROOT_INODE_IDX, DotName)
        dotdot == PhysicalDirectoryEntry_write(BLOCK_SIZE - Len(dot.val), ROOT_INODE_IDX, DotDotName)
    IN format_root(time, Len(dot.val) + Len(dotdot.val),
                   write_data_block(MountBlank(inode_count, data_block_count), 0,
                                    dot.val \o dotdot.val))

\* the root inode of FileSystem::new with read_root_inode, read as `root`
FileSystem_new_root(f, mounted, root) ==
    IF ~root.ok THEN [fs |-> f, r |-> root]
    ELSE [fs |-> [mounted EXCEPT !.root_inode = root.val], r |-> Ok(0)]

\* the Layout FileSystem::new builds from the superblock
\* the mount's Layout built with the two counts of block 0 exchanged
FileSystem_new_layout_Swapped(sb) == Layout_new(sb.data_block_count, sb.inode_count)

FileSystem_new_layout(sb) == Layout_new(sb.inode_count, sb.data_block_count)

\* FileSystem::new on the device of f; returns [fs, r], fs being the new
\* driver, or f when there is none
FileSystem_new(f, read_root_inode) ==
    IF f.sb.magic # MAGIC THEN [fs |-> f, r |-> Err("SuperBlockError")]
    ELSE IF read_root_inode
    THEN FileSystem_new_root(f,
             [f EXCEPT !.layout = FileSystem_new_layout(f.sb), !.root_inode = INode_new(MODE_755, 0)],
             read_inode([f EXCEPT !.layout = FileSystem_new_layout(f.sb)], ROOT_INODE_IDX))
    ELSE [fs |-> [f EXCEPT !.layout = FileSystem_new_layout(f.sb),
                           !.root_inode = INode_new(MODE_755, 0)],
          r |-> Ok(0)]

----------------------------------------------------------------------------
(* The raw block primitives.  A block is held as the bytes before its      *)
(* trailing zeros; `transferred` is the number of bytes the device moved.  *)

\* the bytes of the bitmap block that starts `base` bytes into its region
BitmapBlockBytes(bm, base) ==
    [k \in 1..Max(0, Min(BLOCK_SIZE, Cardinality(DOMAIN bm) - base)) |-> bm[base + k - 1]]

\* the records first, first + 1, ... of one inode-table block
RECURSIVE INodeBlockBytes(_, _, _)
INodeBlockBytes(itab, first, n) ==
    IF n = 0 \/ first \notin DOMAIN itab THEN <<>>
    ELSE INodeBytes(itab[first]) \o INodeBlockBytes(itab, first + 1, n - 1)

\* the number of records of the inode-table block starting at record `first`
\* up to its last record that is not all zero
RecordsInUse(itab, first) ==
    LET used == {i \in first..(first + INODES_PER_BLOCK - 1) :
                    i \in DOMAIN itab /\ itab[i] # ZeroINode}
    IN IF used = {} THEN 0
       ELSE (CHOOSE i \in used : \A j \in used : j <= i) - first + 1

\* the device block that starts at addr
DeviceBlock(f, addr) ==
    LET l == f.layout IN
    IF addr < l.inode_bitmap_offset THEN TrimZeros(SuperBlockBytes(f.sb))
    ELSE IF addr < l.data_bitmap_offset
         THEN TrimZeros(BitmapBlockBytes(f.ibm, addr - l.inode_bitmap_offset))
    ELSE IF addr < l.inode_offset
         THEN TrimZeros(BitmapBlockBytes(f.dbm, addr - l.data_bitmap_offset))
    ELSE IF addr < l.data_offset
         THEN TrimZeros(INodeBlockBytes(f.itab,
                  ((addr - l.inode_offset) \div BLOCK_SIZE) * INODES_PER_BLOCK,
                  RecordsInUse(f.itab, ((addr - l.inode_offset) \div BLOCK_SIZE) * INODES_PER_BLOCK)))
    ELSE f.dblk[DataPos(l, addr)]

\* a read_block that does not look at the number of bytes read
Vsfs_read_block_Unchecked(f, addr, transferred) == Ok(DeviceBlock(f, addr))

\* Vsfs::read_block(addr): Ok(self.block) when the device read BLOCK_SIZE bytes
Vsfs_read_block(f, addr, transferred) ==
    IF transferred # BLOCK_SIZE THEN Err("ReadError")
    ELSE Ok(DeviceBlock(f, addr))

\* the first `transferred` bytes of `block` laid over the bytes `old`
StorePrefix(old, block, transferred) ==
    TrimZeros([k \in 1..Max(Len(old), Min(transferred, Len(block))) |->
                  IF k <= transferred THEN ByteAt(block, k - 1) ELSE old[k]])

\* the device after `transferred` bytes of `block` went to the block at addr,
\* a block of a bitmap or a data block
DeviceStore(f, addr, block, transferred) ==
    LET l == f.layout IN
    IF addr >= l.data_offset
    THEN [f EXCEPT !.dblk[DataPos(l, addr)] = StorePrefix(@, block, transferred)]
    ELSE IF addr >= l.data_bitmap_offset
    THEN [f EXCEPT !.dbm = [i \in DOMAIN f.dbm |->
              IF i >= addr - l.data_bitmap_offset /\ i < addr - l.data_bitmap_offset + transferred
              THEN ByteAt(block, i - (addr - l.data_bitmap_offset)) ELSE f.dbm[i]]]
    ELSE [f EXCEPT !.ibm = [i \in DOMAIN f.ibm |->
              IF i >= addr - l.inode_bitmap_offset /\ i < addr - l.inode_bitmap_offset + transferred
              THEN ByteAt(block, i - (addr - l.inode_bitmap_offset)) ELSE f.ibm[i]]]

\* Vsfs::write_block(addr) with `block` in self.block; returns [fs, r]
Vsfs_write_block(f, addr, block, transferred) ==
    [fs |-> DeviceStore(f, addr, block, transferred),
     r |-> IF transferred # BLOCK_SIZE THEN Err("WriteError") ELSE Ok(0)]

----------------------------------------------------------------------------
(* The state machine: a volume formatted with (inode_count,                *)
(* data_block_count), then driven through the driver's operations.  hist   *)
(* records every call with its result, prev is the driver before the last  *)
(* call.                                                                   *)

MaxInodeCount == 10
MaxDataBlockCount == 10
MaxOps == 3
MaxDirOps == 3
MaxAllocOps == 4
MaxFormatOps == 3
MaxCoreOps == 2
MaxRawOps == 2
MaxReadOps == 2
MaxScanOps == 3
MaxIterOps == 2
MaxEntryOps == 1
MaxGrowOps == 2

MaxCursorLen == 2

MaxCursorOps == 3
MaxLayoutExtra == 100
FormatTime == 123

InodeCounts == {ROOT_INODE_IDX + 1, 8, MaxInodeCount}

DataBlockCounts == {1, MaxDataBlockCount}

\* a name of MAX_FILE_NAME_LEN bytes
LongName == [k \in 1..MAX_FILE_NAME_LEN |-> 97]

FileNames == {DotName, DotDotName, <<97>>, <<98, 99>>, LongName}

LiveEntry == U32LE(ROOT_INODE_IDX) \o U16LE(1) \o <<97>>

TombstoneEntry == U32LE(0) \o U16LE(2) \o <<122, 122>>

\* directory data with one live entry and one tombstone, in either order
DirImages == {TombstoneEntry \o LiveEntry, LiveEntry \o TombstoneEntry}

\* a regular file of a user: rw-r--r--
RegularINode == [INode_new(420, FormatTime) EXCEPT !.uid = 1000, !.gid = 1000]

\* a directory inode over data block 0, of the size of the directory images
DirINode ==
    [INode_new(MODE_755 + MODE_DIRECTORY, FormatTime)
        EXCEPT !.size = Len(LiveEntry) + Len(TombstoneEntry)]

INodeInputs == {RegularINode, DirINode}

INodeIdxInputs(f) ==
    {0, ROOT_INODE_IDX, ROOT_INODE_IDX + 1, f.sb.inode_count - 1, f.sb.inode_count}

DataIdxInputs(f) == {0, 1, f.sb.data_block_count}

Call(op, arg, r) == [op |-> op, arg |-> arg, r |-> r]

last == hist[Len(hist)]

Init ==
    \E ic \in InodeCounts, dc \in DataBlockCounts :
        LET fv == format_volume(ic, dc, FormatTime) IN
        /\ fv.r.ok
        /\ fs = fv.fs
        /\ prev = fv.fs
        /\ hist = <<Call("format_volume", <<ic, dc>>, fv.r)>>

Step(op, arg, res) ==
    /\ fs' = res.fs
    /\ prev' = fs
    /\ hist' = Append(hist, Call(op, arg, res.r))

WriteInode ==
    \E idx \in INodeIdxInputs(fs), inode \in INodeInputs :
        Step("write_inode", <<idx, inode>>, write_inode(fs, idx, inode))

CreateInode ==
    \E inode \in INodeInputs :
        Step("create_inode", inode, create_inode(fs, inode))

WriteDataBlock ==
    \E k \in DataIdxInputs(fs), block \in DirImages :
        Step("write_data_block", <<k, block>>, write_data_block(fs, k, block))

AllocateDataBlock ==
    Step("allocate_data_block", 0, allocate_data_block(fs))

\* CreateFileOptions of a user's file: rw-r--r--
CreateFileOptions(name) ==
    [file_name |-> name, uid |-> 1000, gid |-> 1000, mode |-> 420, time |-> FormatTime + 1]

CreateFile ==
    \E name \in FileNames :
        Step("create_file", CreateFileOptions(name),
             create_file(fs, ROOT_INODE_IDX, CreateFileOptions(name)))

\* the inode operations of the driver on a formatted volume
Next ==
    \/ Len(hist) <= MaxOps /\ WriteInode
    \/ Len(hist) <= MaxOps /\ CreateInode

Spec == Init /\ [][Next]_vars

\* directories: files created in the root directory, directory data written
NextDir ==
    \/ Len(hist) <= MaxDirOps /\ CreateFile
    \/ Len(hist) <= MaxDirOps /\ WriteDataBlock

SpecDir == Init /\ [][NextDir]_vars

\* block 0 of the device written from outside the driver with another magic
BadMagics == {<<0, 0, 0, 0>>, <<118, 115, 102, 116>>, <<86, 115, 102, 115>>}

WriteMagic ==
    \E magic \in BadMagics :
        Step("write_magic", magic, [fs |-> [fs EXCEPT !.sb.magic = magic], r |-> Ok(0)])

Mount ==
    \E read_root_inode \in BOOLEAN :
        Step("mount", read_root_inode, FileSystem_new(fs, read_root_inode))

\* the device formatted again, with the same or with other counts
FormatVolume ==
    \E ic \in InodeCounts, dc \in DataBlockCounts :
        Step("format_volume", <<ic, dc>>, format_volume(ic, dc, FormatTime))

\* formatting and mounting a device that is in use
NextFormat ==
    \/ Len(hist) <= MaxFormatOps /\ FormatVolume
    \/ Len(hist) <= MaxFormatOps /\ Mount
    \/ Len(hist) <= MaxFormatOps /\ WriteMagic
    \/ Len(hist) <= MaxFormatOps /\ CreateInode
    \/ Len(hist) <= MaxFormatOps /\ AllocateDataBlock

SpecFormat == Init /\ [][NextFormat]_vars

\* data blocks: allocated, and written at a given index
NextAlloc ==
    \/ Len(hist) <= MaxAllocOps /\ AllocateDataBlock
    \/ Len(hist) <= MaxAllocOps /\ WriteDataBlock

SpecAlloc == Init /\ [][NextAlloc]_vars

\* the (inode index, name) pairs a full iteration yields
Pairs(r) == [i \in 1..Len(r.entries) |-> <<r.entries[i].inode_idx, r.entries[i].name>>]

\* bytes written at the end of an inode's data
BufLens == {0, 1, BLOCK_SIZE + 1}

Write ==
    \E idx \in {ROOT_INODE_IDX, fs.sb.inode_count - 1}, buf_len \in BufLens :
        Step("write", <<idx, buf_len>>, Vsfs_write(fs, idx, buf_len))

FileWrite ==
    \E buf_len \in BufLens :
        Step("file_write", buf_len, File_write(fs, buf_len))

\* `for entry in root_dir().iter(fs)`: the names yielded
IterRoot ==
    Step("iter", ROOT_INODE_IDX,
         [fs |-> fs, r |-> Ok(Pairs(iter_all(fs, ROOT_INODE_IDX)))])

\* every operation of the driver on a formatted volume
NextCore ==
    \/ Len(hist) <= MaxCoreOps /\ WriteInode
    \/ Len(hist) <= MaxCoreOps /\ CreateInode
    \/ Len(hist) <= MaxCoreOps /\ WriteDataBlock
    \/ Len(hist) <= MaxCoreOps /\ AllocateDataBlock
    \/ Len(hist) <= MaxCoreOps /\ CreateFile
    \/ Len(hist) <= MaxCoreOps /\ Write
    \/ Len(hist) <= MaxCoreOps /\ IterRoot

SpecCore == Init /\ [][NextCore]_vars

\* the numbers of bytes a device moves in one read or write
Transfers == {0, BLOCK_SIZE - 1, BLOCK_SIZE}

\* the first block of every region, and the superblock
RegionBlocks(l) ==
    {0, l.inode_bitmap_offset, l.data_bitmap_offset, l.inode_offset, l.data_offset}

RawReadBlock ==
    \E addr \in RegionBlocks(fs.layout), transferred \in Transfers :
        Step("read_block_raw", <<addr, transferred>>,
             [fs |-> fs, r |-> Vsfs_read_block(fs, addr, transferred)])

\* what write_block is given: a data bitmap block with one byte set, or a
\* data block holding a directory image
RawWrites(l) ==
    {<<l.data_bitmap_offset, <<b>>>> : b \in {2, 5}}
    \cup {<<l.data_offset, block>> : block \in DirImages}

RawWriteBlock ==
    \E w \in RawWrites(fs.layout), transferred \in Transfers :
        Step("write_block_raw", <<w[1], w[2], transferred>>,
             Vsfs_write_block(fs, w[1], w[2], transferred))

\* the raw block primitives on a formatted volume
NextRaw ==
    \/ Len(hist) <= MaxRawOps /\ RawReadBlock
    \/ Len(hist) <= MaxRawOps /\ RawWriteBlock

SpecRaw == Init /\ [][NextRaw]_vars

\* regular files of one byte, of one block and of more than the direct
\* slots hold
SizedINodes ==
    {[RegularINode EXCEPT !.size = n] :
        n \in {1, BLOCK_SIZE, IMMEDIATE_BLOCK_COUNT * BLOCK_SIZE + 1}}

WriteInodeSized ==
    \E idx \in {ROOT_INODE_IDX, fs.sb.inode_count - 1}, inode \in SizedINodes :
        Step("write_inode", <<idx, inode>>, write_inode(fs, idx, inode))

\* byte offsets on and off the block boundaries, up to the last direct slot
\* and past it
Offsets ==
    {0, 1, BLOCK_SIZE, BLOCK_SIZE + 1,
     IMMEDIATE_BLOCK_COUNT * BLOCK_SIZE, IMMEDIATE_BLOCK_COUNT * BLOCK_SIZE + 1}

ReadBlock ==
    \E idx \in {ROOT_INODE_IDX, fs.sb.inode_count - 1}, offset \in Offsets :
        Step("read_block", <<idx, offset>>, [fs |-> fs, r |-> read_block(fs, idx, offset)])

\* reads and writes through an inode
NextRead ==
    \/ Len(hist) <= MaxReadOps /\ WriteInodeSized
    \/ Len(hist) <= MaxReadOps /\ ReadBlock
    \/ Len(hist) <= MaxReadOps /\ Write
    \/ Len(hist) <= MaxReadOps /\ FileWrite

SpecRead == Init /\ [][NextRead]_vars

\* inode counts up to and past the number of inodes of one inode-table block
ScanInodeCounts == {ROOT_INODE_IDX + 1, INODES_PER_BLOCK, INODES_PER_BLOCK + 1}

InitScan ==
    \E ic \in ScanInodeCounts, dc \in DataBlockCounts :
        LET fv == format_volume(ic, dc, FormatTime) IN
        /\ fv.r.ok
        /\ fs = fv.fs
        /\ prev = fv.fs
        /\ hist = <<Call("format_volume", <<ic, dc>>, fv.r)>>

\* the byte number i of an inode bitmap with the bit of every index below
\* inode_count set
FullBitmapByte(inode_count, i) ==
    IF 8 * (i + 1) <= inode_count THEN 255 ELSE Shl1(inode_count - 8 * i) - 1

\* the inode bitmap written from outside the driver: every inode in use
FillInodeBitmap ==
    Step("fill_inode_bitmap", 0,
         [fs |-> [fs EXCEPT !.ibm = [i \in DOMAIN fs.ibm |->
                                        FullBitmapByte(fs.sb.inode_count, i)]],
          r |-> Ok(0)])

\* the inode bitmap written from outside the driver: every inode but inode 0
\* in use
FillInodeBitmapButFirst ==
    Step("fill_inode_bitmap_but_first", 0,
         [fs |-> [fs EXCEPT !.ibm = [i \in DOMAIN fs.ibm |->
                                        IF i = 0 THEN FullBitmapByte(fs.sb.inode_count, 0) - 1
                                        ELSE FullBitmapByte(fs.sb.inode_count, i)]],
          r |-> Ok(0)])

\* the scan of create_inode over inode bitmaps of every filling
NextScan ==
    \/ Len(hist) <= MaxScanOps /\ CreateInode
    \/ Len(hist) <= MaxScanOps /\ WriteDataBlock
    \/ Len(hist) <= MaxScanOps /\ FillInodeBitmap
    \/ Len(hist) <= MaxScanOps /\ FillInodeBitmapButFirst

SpecScan == InitScan /\ [][NextScan]_vars

\* recorded sizes of a directory: empty, one header, a size inside the name
\* of the second entry of the root directory, the root directory of
\* format_volume, one block, and all the direct slots
IterSizes == {0, BASE_PHYSICAL_DIRECTORY_ENTRY_SIZE, 13, 15, BLOCK_SIZE,
              IMMEDIATE_BLOCK_COUNT * BLOCK_SIZE}

\* the root directory inode rewritten with another recorded size
WriteDirINode ==
    \E n \in IterSizes :
        Step("write_inode", <<ROOT_INODE_IDX, [fs.root_inode EXCEPT !.size = n]>>,
             write_inode(fs, ROOT_INODE_IDX, [fs.root_inode EXCEPT !.size = n]))

\* a DirectoryIterator is at work: iter() or next() was the last call
Iterating == last.op \in {"iter_new", "next"}

\* the iterator as the last call left it
ItNow == last.arg

\* iteration is over: iter() failed, or next() returned None or an error
IterOver ==
    /\ Iterating
    /\ \/ ~last.r.ok
       \/ last.op = "next" /\ ~last.r.val.some

\* DirectoryIterator::new as a call record: arg is the iterator it returns
IterOpenCall(it) ==
    Step("iter_new", IF it.ok THEN it.val ELSE 0,
         [fs |-> fs, r |-> IF it.ok THEN Ok(0) ELSE it])

\* root_dir().iter(fs)
IterOpen ==
    /\ ~Iterating
    /\ IterOpenCall(DirectoryIterator_new(fs, ROOT_INODE_IDX))

\* the result of DirectoryIterator::next as a call record: arg is the
\* iterator the call leaves, r the item
IterNextCall(n) == Step("next", n.it, [fs |-> fs, r |-> n.r])

\* DirectoryIterator::next, called until it returns None or an error
IterNext ==
    /\ Iterating
    /\ ~IterOver
    /\ IterNextCall(read_next(fs, ROOT_INODE_IDX, ItNow))

\* directories of every content and size, iterated to the end
NextIter ==
    \/ Len(hist) <= MaxIterOps /\ ~Iterating /\ WriteDataBlock
    \/ Len(hist) <= MaxIterOps /\ ~Iterating /\ WriteDirINode
    \/ IterOpen
    \/ IterNext

SpecIter == Init /\ [][NextIter]_vars

\* directory records: of the root inode and of inode 1, which no call
\* of these runs writes
EntryInputs ==
    {[inode_idx |-> i, name |-> n] : i \in {1, ROOT_INODE_IDX}, n \in {<<>>, <<98, 99>>}}

\* a name that leaves 5 bytes of its block after its record
ShortOfBlockName == [k \in 1..(MAX_FILE_NAME_LEN - 5) |-> 97]

\* the sequences of records written into a directory: up to two records, a
\* record that fills the first block with a record in the second block, and
\* a record whose header lies across the end of the first block
EntrySeqs ==
    {<<e>> : e \in EntryInputs}
    \cup {<<d, e>> : d \in EntryInputs, e \in EntryInputs}
    \cup {<<[inode_idx |-> ROOT_INODE_IDX, name |-> n], [inode_idx |-> ROOT_INODE_IDX, name |-> <<97>>]>> :
             n \in {LongName, ShortOfBlockName}}

\* offset += PhysicalDirectoryEntry::write(&mut buf[offset..], idx, name)?
\* for the records of seq from number k on, into a buffer of two blocks that
\* holds `buf` so far: Ok(buf) or the error of the write that did not fit
RECURSIVE EntriesImage(_, _, _)
EntriesImage(seq, k, buf) ==
    IF k > Len(seq) THEN Ok(buf)
    ELSE LET w == PhysicalDirectoryEntry_write(2 * BLOCK_SIZE - Len(buf), seq[k].inode_idx, seq[k].name)
         IN IF ~w.ok THEN w ELSE EntriesImage(seq, k + 1, buf \o w.val)

\* the second block of the buffer written to data block 1, after the write
\* w of the first
WriteEntriesSecond(w, rest) ==
    IF ~w.r.ok THEN w ELSE write_data_block(w.fs, 1, rest)

\* the buffer written to the data blocks 0 and 1
WriteEntriesData(f, buf) ==
    IF Len(buf) <= BLOCK_SIZE THEN write_data_block(f, 0, buf)
    ELSE WriteEntriesSecond(write_data_block(f, 0, SubSeq(buf, 1, BLOCK_SIZE)),
                            SubSeq(buf, BLOCK_SIZE + 1, Len(buf)))

\* the directory inode written over the data blocks w holds: size is the
\* number of bytes of the records, the second slot is data block 1
WriteEntriesINode(size, w) ==
    IF ~w.r.ok THEN w
    ELSE write_inode(w.fs, ROOT_INODE_IDX,
                     [w.fs.root_inode EXCEPT !.size = size,
                                             !.blocks[2] = IF size > BLOCK_SIZE THEN 1 ELSE @])

\* records written back-to-back into the data of the root directory, the
\* way format_volume writes "." and ".."
WriteEntriesBlock(f, image) ==
    IF ~image.ok THEN [fs |-> f, r |-> image]
    ELSE WriteEntriesINode(Len(image.val), WriteEntriesData(f, image.val))

WriteEntries ==
    \E seq \in EntrySeqs :
        Step("write_entries", seq, WriteEntriesBlock(fs, EntriesImage(seq, 1, <<>>)))

\* directories of records written back-to-back, iterated to the end
NextEntries ==
    \/ Len(hist) <= MaxEntryOps /\ ~Iterating /\ WriteEntries
    \/ IterOpen
    \/ IterNext

SpecEntries == Init /\ [][NextEntries]_vars

\* the direct slots of the inodes grown: none assigned, the first assigned,
\* the second assigned
GrowBlocks ==
    {[i \in 1..IMMEDIATE_BLOCK_COUNT |-> None],
     [i \in 1..IMMEDIATE_BLOCK_COUNT |-> IF i = 1 THEN 0 ELSE None],
     [i \in 1..IMMEDIATE_BLOCK_COUNT |-> IF i = 2 THEN 1 ELSE None]}

\* inodes as Vsfs::write hands them to grow_inode_data_size, of no data and
\* of more than one block
GrowINodes ==
    {[INode_from(RegularINode) EXCEPT !.size = n, !.blocks = b] :
        n \in {0, BLOCK_SIZE + 1}, b \in GrowBlocks}

\* new sizes below and above the sizes of the inodes, up to the direct slots
\* and past them
GrowSizes ==
    {0, 1, BLOCK_SIZE + 1, 2 * BLOCK_SIZE + 1,
     IMMEDIATE_BLOCK_COUNT * BLOCK_SIZE, IMMEDIATE_BLOCK_COUNT * BLOCK_SIZE + 1}

\* grow_inode_data_size as a call record: arg holds the inode given, the new
\* size and the inode as the call leaves it
GrowCall(inode, new_size, g) ==
    Step("grow_inode_data_size", <<inode, new_size, g.inode>>, [fs |-> g.fs, r |-> g.r])

\* grow_inode_data_size on an inode whose assigned slots hold allocated
\* data blocks
Grow ==
    \E inode \in GrowINodes, new_size \in GrowSizes :
        /\ \A i \in 1..IMMEDIATE_BLOCK_COUNT :
              inode.blocks[i] # None =>
                  /\ inode.blocks[i] < fs.sb.data_block_count
                  /\ TestBit(GetByte(fs.dbm, inode.blocks[i] \div 8), inode.blocks[i] % 8) = 1
        /\ GrowCall(inode, new_size, grow_inode_data_size(fs, inode, new_size))

\* inodes grown on volumes with some data blocks allocated
NextGrow ==
    \/ Len(hist) <= MaxGrowOps /\ AllocateDataBlock
    \/ Len(hist) <= MaxGrowOps /\ Grow

SpecGrow == Init /\ [][NextGrow]_vars

\* The layout calculator on its own: a Layout built for (inode_count,
\* data_block_count), and its address functions applied to an index.  hist
\* holds the construction and the latest call.
BitsPerBlock == BLOCK_SIZE * 8

LayoutCounts == {0, 1, 8, INODES_PER_BLOCK + 1, BitsPerBlock, BitsPerBlock + MaxLayoutExtra}

LayoutIdxInputs(count) ==
    {n \in {0, 7, 8, INODES_PER_BLOCK - 1, INODES_PER_BLOCK, BitsPerBlock - 1, BitsPerBlock,
            count - 1, count, count + 1} : n >= 0}

InitLayout ==
    \E ic \in LayoutCounts, dc \in LayoutCounts :
        /\ fs = [layout |-> Layout_new(ic, dc)]
        /\ prev = fs
        /\ hist = <<Call("Layout_new", <<ic, dc>>, Ok(0))>>

StepLayout(op, arg, r) ==
    /\ fs' = fs
    /\ prev' = fs
    /\ hist' = <<hist[1], Call(op, arg, r)>>

CalcInodeBitmapAddr ==
    \E n \in LayoutIdxInputs(fs.layout.inode_count) :
        StepLayout("calc_inode_bitmap_addr", n, calc_inode_bitmap_addr(fs.layout, n))

CalcInodeBlockAddr ==
    \E n \in LayoutIdxInputs(fs.layout.inode_count) :
        StepLayout("calc_inode_block_addr", n, calc_inode_block_addr(fs.layout, n))

CalcDataBitmapAddr ==
    \E n \in LayoutIdxInputs(fs.layout.data_block_count) :
        StepLayout("calc_data_bitmap_addr", n, calc_data_bitmap_addr(fs.layout, n))

CalcDataAddr ==
    \E n \in LayoutIdxInputs(fs.layout.data_block_count) :
        StepLayout("calc_data_addr", n, calc_data_addr(fs.layout, n))

NextLayout ==
    \/ CalcInodeBitmapAddr
    \/ CalcInodeBlockAddr
    \/ CalcDataBitmapAddr
    \/ CalcDataAddr

SpecLayout == InitLayout /\ [][NextLayout]_vars

\* what a slot of a logical inode holds: no block, or a data block index of
\* the volume
LogicalSlots(f) == {None, 0, 1, f.sb.data_block_count - 1}

\* logical inodes over the first two direct slots and the indirect slot
LogicalINodes(f) ==
    {[INode_from(RegularINode) EXCEPT !.blocks[1] = a, !.blocks[2] = b, !.indirect_block = c] :
        a \in LogicalSlots(f), b \in LogicalSlots(f), c \in LogicalSlots(f)}

\* physical inodes: BLOCK_NOT_SET or a data block index in each slot
PhysicalINodes(f) ==
    {[RegularINode EXCEPT !.blocks[1] = a, !.blocks[2] = b, !.indirect_block = c] :
        a \in {BLOCK_NOT_SET, 1, f.sb.data_block_count - 1},
        b \in {BLOCK_NOT_SET, 1, f.sb.data_block_count - 1},
        c \in {BLOCK_NOT_SET, 1, f.sb.data_block_count - 1}}

\* INode::from(PhysicalINode::from(inode))
INodeRoundTrip ==
    \E inode \in LogicalINodes(fs) :
        StepLayout("inode_round_trip", inode, Ok(INode_from(PhysicalINode_from(inode))))

\* PhysicalINode::from(INode::from(physical))
PhysicalRoundTrip ==
    \E physical \in PhysicalINodes(fs) :
        StepLayout("physical_round_trip", physical, Ok(PhysicalINode_from(INode_from(physical))))

\* the conversions between the inode on disk and the inode in memory
NextConvert ==
    \/ INodeRoundTrip
    \/ PhysicalRoundTrip

SpecConvert == Init /\ [][NextConvert]_vars

----------------------------------------------------------------------------
(* What the claims speak of *)

\* the bitmap bit of an inode index, as calc_inode_bitmap_addr addresses it
INodeBit(f, idx) ==
    LET a == calc_inode_bitmap_addr(f.layout, idx).val
    IN TestBit(DeviceByte(f, a.addr, a.offset), a.bit)

\* bit number n of the data bitmap
DataBit(f, n) == TestBit(GetByte(f.dbm, n \div 8), n % 8)

OnlyOps(h, names) == \A i \in 2..Len(h) : h[i].op \in names

OkCalls(h, op) == {i \in 2..Len(h) : h[i].op = op /\ h[i].r.ok}

PairSet(r) == {Pairs(r)[i] : i \in 1..Len(r.entries)}

RootSize(f) == f.itab[ROOT_INODE_IDX].size

----------------------------------------------------------------------------
(* C1 *)

\* C1: immediately after format_volume succeeds, iterating root_dir() yields
\* exactly "." then "..", each a directory whose to_dir() has the root inode
\* index, uid and gid root and permission bits 0o755.
C1_RootDirAfterFormat ==
    last.op = "format_volume" /\ last.r.ok =>
        LET it == iter_all(fs, ROOT_INODE_IDX) IN
        /\ it.err = ""
        /\ Len(it.entries) = 2
        /\ it.entries[1].name = DotName
        /\ it.entries[2].name = DotDotName
        /\ \A i \in 1..2 :
              LET d == to_dir(it.entries[i]) IN
              /\ is_dir(it.entries[i])
              /\ d.some
              /\ d.inode_idx = ROOT_INODE_IDX
              /\ d.inode.uid = ROOT_UID
              /\ d.inode.gid = ROOT_UID
              /\ Directory_mode(d.inode) = MODE_755

C1_Witness ==
    /\ last.op = "format_volume"
    /\ last.r.ok
    /\ fs.sb.inode_count = MaxInodeCount
    /\ Len(iter_all(fs, ROOT_INODE_IDX).entries) = 2

----------------------------------------------------------------------------
(* C2, C3, C4 *)

\* C2: in any sequence of create_inode calls on a freshly formatted volume,
\* every successful call returns an index whose inode bitmap bit was clear
\* before the call, marks it used and persists the inode there; no index is
\* returned by two calls and the root index 2 is never returned.
C2_CreateInodeFreshIndex ==
    OnlyOps(hist, {"create_inode"}) =>
        /\ Len(hist) > 1 /\ last.r.ok =>
              /\ INodeBit(prev, last.r.val) = 0
              /\ INodeBit(fs, last.r.val) = 1
              /\ fs.itab[last.r.val] = last.arg
        /\ \A i, j \in OkCalls(hist, "create_inode") : i # j => hist[i].r.val # hist[j].r.val
        /\ \A i \in OkCalls(hist, "create_inode") : hist[i].r.val # ROOT_INODE_IDX

\* C3: of inode_count + 1 create_inode calls on a freshly formatted volume
\* the first inode_count - 1 succeed and the next fails with OutOfINodes.
C3_CreateInodeExhaustion ==
    OnlyOps(hist, {"create_inode"}) =>
        \A i \in 2..Len(hist) :
            /\ i - 1 <= fs.sb.inode_count - 1 => hist[i].r.ok
            /\ i - 1 = fs.sb.inode_count => ~hist[i].r.ok /\ hist[i].r.err = "OutOfINodes"

\* C4: after write_inode(idx, inode) succeeds the inode bitmap bit of idx is
\* set and the bit of every other inode index is what it was before the call.
C4_WriteInodeBitmapFrame ==
    last.op = "write_inode" /\ last.r.ok =>
        /\ INodeBit(fs, last.arg[1]) = 1
        /\ \A j \in 0..(fs.sb.inode_count - 1) :
              j # last.arg[1] => INodeBit(fs, j) = INodeBit(prev, j)

----------------------------------------------------------------------------
(* C5 *)

\* the root inode format_volume writes
FormatRootINode ==
    [INode_new(MODE_755 + MODE_DIRECTORY, FormatTime)
        EXCEPT !.size = 2 * BASE_PHYSICAL_DIRECTORY_ENTRY_SIZE + Len(DotName) + Len(DotDotName)]

\* the inode most recently written to idx by the calls h[1..i]
RECURSIVE StoredAt(_, _, _)
StoredAt(h, i, idx) ==
    IF i = 1 THEN (IF idx = ROOT_INODE_IDX THEN FormatRootINode ELSE ZeroINode)
    ELSE IF h[i].op = "write_inode" /\ h[i].r.ok /\ h[i].arg[1] = idx THEN h[i].arg[2]
    ELSE IF h[i].op = "create_inode" /\ h[i].r.ok /\ h[i].r.val = idx THEN h[i].arg
    ELSE StoredAt(h, i - 1, idx)

\* C5: in every state reached from a formatted volume, read_inode(idx) with
\* idx < inode_count fails with INodeIndexEmpty exactly when the bitmap bit
\* of idx is clear, and with idx >= inode_count it fails with the out of
\* range error; otherwise (the calls being write_inode and create_inode
\* calls) it returns the inode last written to idx.
C5_ReadInodeFollowsBitmap ==
    \A idx \in 0..(fs.sb.inode_count + 1) :
        LET r == read_inode(fs, idx) IN
        IF idx >= fs.sb.inode_count
        THEN ~r.ok /\ r.err = "INodeIndexOutOfRange"
        ELSE /\ (~r.ok /\ r.err = "INodeIndexEmpty") <=> (INodeBit(fs, idx) = 0)
             /\ INodeBit(fs, idx) = 1 => r.ok
             /\ INodeBit(fs, idx) = 1 /\ OnlyOps(hist, {"write_inode", "create_inode"})
                   => r.val = StoredAt(hist, Len(hist), idx)

C5_Witness ==
    /\ last.op = "create_inode"
    /\ last.r.ok
    /\ OnlyOps(hist, {"write_inode", "create_inode"})
    /\ Len(hist) > 2
    /\ read_inode(fs, last.r.val) = Ok(RegularINode)
    /\ \E idx \in 0..(fs.sb.inode_count - 1) :
          INodeBit(fs, idx) = 0 /\ read_inode(fs, idx).err = "INodeIndexEmpty"

----------------------------------------------------------------------------
(* C6, C7, C8 *)

\* C6: the inode Directory::create_file makes is a regular file: its mode is
\* the requested permission bits without the directory bit, its uid and gid
\* are the requested ones, its size is 0, and an entry iter() yields for it
\* has is_dir() = false.
C6_CreateFileRegular ==
    last.op = "create_file" /\ last.r.ok =>
        LET file == last.r.val
            it == iter_all(fs, ROOT_INODE_IDX)
        IN /\ file.inode.mode = last.arg.mode
           /\ (file.inode.mode \div MODE_DIRECTORY) % 2 = 0
           /\ file.inode.uid = last.arg.uid
           /\ file.inode.gid = last.arg.gid
           /\ file.inode.size = 0
           /\ fs.itab[file.inode_idx] = file.inode
           /\ \A i \in 1..Len(it.entries) :
                 it.entries[i].inode_idx = file.inode_idx => ~is_dir(it.entries[i])

\* C7: after create_file(name) succeeds on a directory that did not contain
\* name, exists(name) is true and iter() yields the entries it yielded
\* before plus exactly one new entry: name, with the new file's inode index.
C7_CreateFileAddsEntry ==
    last.op = "create_file" /\ last.r.ok =>
        LET before == iter_all(prev, ROOT_INODE_IDX)
            after == iter_all(fs, ROOT_INODE_IDX)
        IN /\ exists(fs, ROOT_INODE_IDX, last.arg.file_name) = Ok(TRUE)
           /\ after.err = ""
           /\ Len(after.entries) = Len(before.entries) + 1
           /\ PairSet(after) = PairSet(before) \cup {<<last.r.val.inode_idx, last.arg.file_name>>}

\* C8: create_file fails with FileNameTooLong when the name has
\* MAX_FILE_NAME_LEN bytes or more and with FileExists when iterating the
\* directory yields an entry of that name (after entries with readable
\* names); in both cases nothing of the driver or the device changes: no
\* inode allocated, no bitmap bit changed, the directory's data and size as
\* before.
C8_CreateFileRejects ==
    last.op = "create_file" =>
        LET before == iter_all(prev, ROOT_INODE_IDX) IN
        /\ Len(last.arg.file_name) >= MAX_FILE_NAME_LEN => ~last.r.ok /\ last.r.err = "FileNameTooLong"
        /\ (Len(last.arg.file_name) < MAX_FILE_NAME_LEN
              /\ \E i \in 1..Len(before.entries) :
                    /\ before.entries[i].name = last.arg.file_name
                    /\ \A k \in 1..(i - 1) : file_name(before.entries[k]).ok)
                 => ~last.r.ok /\ last.r.err = "FileExists"
        /\ (~last.r.ok /\ last.r.err \in {"FileNameTooLong", "FileExists"}) => fs = prev

C8_Witness ==
    /\ \E i \in 2..Len(hist) :
          hist[i].op = "create_file" /\ hist[i].arg.file_name = LongName
          /\ hist[i].r.err = "FileNameTooLong"
    /\ last.op = "create_file"
    /\ last.arg.file_name = DotDotName
    /\ last.r.err = "FileExists"
    /\ fs = prev

----------------------------------------------------------------------------
(* C9 *)

\* the root directory holds one of the directory images: data block 0 is its
\* first block and its recorded size is the image's length
RootHoldsImage ==
    /\ fs.dblk[0] \in DirImages
    /\ read_inode(fs, ROOT_INODE_IDX).ok
    /\ fs.itab[ROOT_INODE_IDX].blocks[1] = 0
    /\ RootSize(fs) = Len(fs.dblk[0])

\* C9: iterating a directory that holds one live entry and one tombstone
\* (inode index 0, its name bytes present), in either order, yields exactly
\* the live entry with its name, and the iterator has consumed the
\* directory's recorded size when it stops.
C9_TombstoneSkipped ==
    RootHoldsImage =>
        LET it == iter_all(fs, ROOT_INODE_IDX) IN
        /\ it.err = ""
        /\ Pairs(it) = <<(<<ROOT_INODE_IDX, <<97>>>>)>>
        /\ it.consumed = RootSize(fs)

----------------------------------------------------------------------------
(* C10 *)

\* C10: a successful allocate_data_block returns an index below
\* data_block_count whose data bitmap bit was clear before the call and is
\* set after it, changes no other data bitmap bit and leaves the block all
\* zero; in a run of consecutive allocations no index is handed out twice.
C10_AllocateDataBlockFresh ==
    /\ last.op = "allocate_data_block" /\ last.r.ok =>
          /\ last.r.val < fs.sb.data_block_count
          /\ DataBit(prev, last.r.val) = 0
          /\ DataBit(fs, last.r.val) = 1
          /\ \A n \in 0..(8 * DivCeil(fs.sb.data_block_count, 8) - 1) :
                n # last.r.val => DataBit(fs, n) = DataBit(prev, n)
          /\ fs.dblk[last.r.val] = <<>>
    /\ \A i, j \in OkCalls(hist, "allocate_data_block") :
          (i < j /\ \A k \in i..j : hist[k].op = "allocate_data_block")
              => hist[i].r.val # hist[j].r.val

C10_Witness ==
    /\ Len(hist) > 2
    /\ last.op = "allocate_data_block"
    /\ last.r.ok
    /\ hist[Len(hist) - 1].op = "allocate_data_block"
    /\ hist[Len(hist) - 1].r.ok
    /\ last.r.val = 2

----------------------------------------------------------------------------
(* C11, C12 *)

\* every data block index below data_block_count is marked used
AllDataBlocksUsed(f) == \A n \in 0..(f.sb.data_block_count - 1) : DataBit(f, n) = 1

\* C11: when every data block index below data_block_count is marked used,
\* allocate_data_block fails with OutOfDiskSpaceError and leaves the data
\* bitmap and all data blocks unchanged, whatever data_block_count is.
C11_AllocateExhausted ==
    last.op = "allocate_data_block" /\ AllDataBlocksUsed(prev) =>
        /\ ~last.r.ok
        /\ last.r.err = "OutOfDiskSpaceError"
        /\ fs.dbm = prev.dbm
        /\ fs.dblk = prev.dblk

\* C12: allocate_data_block is first fit: the index it returns is the
\* smallest data block index whose bitmap bit is clear.
C12_AllocateFirstFit ==
    last.op = "allocate_data_block" /\ last.r.ok =>
        /\ DataBit(prev, last.r.val) = 0
        /\ \A n \in 0..(last.r.val - 1) : DataBit(prev, n) = 1

\* an allocation that had set bits below the index it returned
C12_Witness ==
    /\ last.op = "allocate_data_block"
    /\ last.r.ok
    /\ last.r.val = 2
    /\ DataBit(prev, 0) = 1
    /\ DataBit(prev, 1) = 1
    /\ DataBit(prev, 3) = 0

----------------------------------------------------------------------------
(* C13 *)

\* bit number n of the inode bitmap
INodeMapBit(f, n) == TestBit(GetByte(f.ibm, n \div 8), n % 8)

\* C13: immediately after format_volume the inode bitmap has exactly one bit
\* set, that of the root index 2, the data bitmap has exactly one bit set,
\* that of data block 0, every inode record other than the root is zero and
\* every data block other than block 0 is zero.
C13_FormatLeavesOnlyRoot ==
    last.op = "format_volume" /\ last.r.ok =>
        /\ \A i \in DOMAIN fs.ibm : \A b \in 0..7 :
              INodeMapBit(fs, 8 * i + b) = IF 8 * i + b = ROOT_INODE_IDX THEN 1 ELSE 0
        /\ \A i \in DOMAIN fs.dbm : \A b \in 0..7 :
              DataBit(fs, 8 * i + b) = IF 8 * i + b = 0 THEN 1 ELSE 0
        /\ \A i \in DOMAIN fs.itab : i # ROOT_INODE_IDX => fs.itab[i] = ZeroINode
        /\ \A k \in DOMAIN fs.dblk : k # 0 => fs.dblk[k] = <<>>

\* a volume formatted again after an inode and a data block were allocated
C13_Witness ==
    /\ Len(hist) = 4
    /\ hist[2].op = "create_inode" /\ hist[2].r.ok
    /\ hist[3].op = "allocate_data_block" /\ hist[3].r.ok
    /\ prev.itab[hist[2].r.val] # ZeroINode
    /\ DataBit(prev, hist[3].r.val) = 1
    /\ last.op = "format_volume" /\ last.r.ok
    /\ fs.sb.inode_count = prev.sb.inode_count
    /\ fs.sb.data_block_count = prev.sb.data_block_count

----------------------------------------------------------------------------
(* C14 *)

\* C14: Layout::new places the regions in the order superblock, inode
\* bitmap, data bitmap, inode table, data blocks, each starting where the
\* previous one ends, BLOCK_SIZE <= inode_bitmap_offset <= data_bitmap_offset
\* <= inode_offset <= data_offset <= size, and size is (1 + the block counts
\* of the four regions) * BLOCK_SIZE, the number of bytes format_volume
\* writes.
C14_LayoutRegions ==
    LET l == fs.layout IN
    /\ l = Layout_new(hist[1].arg[1], hist[1].arg[2])
    /\ l.inode_bitmap_offset = BLOCK_SIZE
    /\ l.data_bitmap_offset = l.inode_bitmap_offset + l.inode_bitmap_block_count * BLOCK_SIZE
    /\ l.inode_offset = l.data_bitmap_offset + l.data_bitmap_block_count * BLOCK_SIZE
    /\ l.data_offset = l.inode_offset + l.inode_block_count * BLOCK_SIZE
    /\ l.size = l.data_offset + l.data_block_count * BLOCK_SIZE
    /\ BLOCK_SIZE <= l.inode_bitmap_offset
    /\ l.inode_bitmap_offset <= l.data_bitmap_offset
    /\ l.data_bitmap_offset <= l.inode_offset
    /\ l.inode_offset <= l.data_offset
    /\ l.data_offset <= l.size
    /\ l.size = (1 + l.inode_bitmap_block_count + l.data_bitmap_block_count
                   + l.inode_block_count + l.data_block_count) * BLOCK_SIZE
    /\ l.size = format_block_count(l, l.data_block_count) * BLOCK_SIZE
    /\ l.inode_bitmap_block_count * BitsPerBlock >= l.inode_count
    /\ l.data_bitmap_block_count * BitsPerBlock >= l.data_block_count
    /\ l.inode_block_count * INODES_PER_BLOCK >= l.inode_count

\* a layout whose bitmaps take two blocks each
C14_Witness ==
    /\ fs.layout.inode_bitmap_block_count = 2
    /\ fs.layout.data_bitmap_block_count = 2
    /\ fs.layout.inode_count = BitsPerBlock + MaxLayoutExtra
    /\ Len(hist) = 2

----------------------------------------------------------------------------
(* C15 *)

INodeAddrOps == {"calc_inode_bitmap_addr", "calc_inode_block_addr"}

DataAddrOps == {"calc_data_bitmap_addr", "calc_data_addr"}

\* the count of the region that the call's index is checked against
RegionCount(op) ==
    IF op \in INodeAddrOps THEN fs.layout.inode_count ELSE fs.layout.data_block_count

----------------------------------------------------------------------------
(* C16 *)

BitmapAddrOps == {"calc_inode_bitmap_addr", "calc_data_bitmap_addr"}

\* what the bitmap address function named op returns for index n
BitmapAddrOf(op, n) ==
    IF op = "calc_inode_bitmap_addr" THEN calc_inode_bitmap_addr(fs.layout, n)
    ELSE calc_data_bitmap_addr(fs.layout, n)

BitmapRegionStart(op) ==
    IF op = "calc_inode_bitmap_addr" THEN fs.layout.inode_bitmap_offset
    ELSE fs.layout.data_bitmap_offset

\* C16: for a valid index n, calc_inode_bitmap_addr(n) and
\* calc_data_bitmap_addr(n) return (region start + ((n div 8) div BLOCK_SIZE)
\* * BLOCK_SIZE, (n div 8) mod BLOCK_SIZE, n mod 8), and no other valid
\* index gets the same (block, byte, bit) triple.
C16_BitmapTriple ==
    (last.op \in BitmapAddrOps /\ last.r.ok) =>
        LET n == last.arg IN
        /\ last.r.val.addr = BitmapRegionStart(last.op) + ((n \div 8) \div BLOCK_SIZE) * BLOCK_SIZE
        /\ last.r.val.offset = (n \div 8) % BLOCK_SIZE
        /\ last.r.val.bit = n % 8
        /\ \A m \in LayoutIdxInputs(RegionCount(last.op)) \cup {n + 1, n + 8, n + BitsPerBlock} :
              (m # n /\ m < RegionCount(last.op)) =>
                  BitmapAddrOf(last.op, m).val # last.r.val

\* an inode index in the second bitmap block, next to index 0 of the first
C16_Witness ==
    /\ last.op = "calc_inode_bitmap_addr"
    /\ last.arg = BitsPerBlock
    /\ last.r.ok
    /\ last.r.val.offset = 0
    /\ last.r.val.bit = 0

----------------------------------------------------------------------------
(* C17 *)

\* first byte of the inode record that calc_inode_block_addr's result a names
INodeRecordStart(a) == a.addr + a.offset

\* C17: for n < inode_count, calc_inode_block_addr(n) returns block =
\* inode_offset + (n div inodes_per_block) * BLOCK_SIZE and offset =
\* (n mod inodes_per_block) * inode_size; the record lies inside that one
\* block, and the records of two distinct inodes do not overlap.
C17_INodeRecordPlacement ==
    (last.op = "calc_inode_block_addr" /\ last.r.ok) =>
        LET n == last.arg
            a == last.r.val
        IN
        /\ a.addr = fs.layout.inode_offset + (n \div INODES_PER_BLOCK) * BLOCK_SIZE
        /\ a.offset = (n % INODES_PER_BLOCK) * INODE_SIZE
        /\ a.offset + INODE_SIZE <= BLOCK_SIZE
        /\ \A m \in LayoutIdxInputs(fs.layout.inode_count) \cup {n + 1, n + INODES_PER_BLOCK} :
              (m # n /\ m < fs.layout.inode_count) =>
                  LET b == calc_inode_block_addr(fs.layout, m).val IN
                  \/ INodeRecordStart(b) + INODE_SIZE <= INodeRecordStart(a)
                  \/ INodeRecordStart(a) + INODE_SIZE <= INodeRecordStart(b)

\* the first inode of the second inode block, with the last of the first
\* block as its neighbour
C17_Witness ==
    /\ last.op = "calc_inode_block_addr"
    /\ last.arg = INODES_PER_BLOCK
    /\ last.r.ok
    /\ last.r.val.addr = fs.layout.inode_offset + BLOCK_SIZE

----------------------------------------------------------------------------
(* C18 *)

\* C18: for a valid index, an inode bitmap byte lies in [inode_bitmap_offset,
\* data_bitmap_offset), a data bitmap byte in [data_bitmap_offset,
\* inode_offset), an inode record in [inode_offset, data_offset), and data
\* block n occupies [data_offset + n * BLOCK_SIZE, data_offset + (n + 1) *
\* BLOCK_SIZE), which ends at or before size.
C18_AddressesInsideRegions ==
    LET l == fs.layout
        n == last.arg
        a == last.r.val
    IN
    /\ (last.op = "calc_inode_bitmap_addr" /\ last.r.ok) =>
          /\ l.inode_bitmap_offset <= a.addr + a.offset
          /\ a.addr + a.offset < l.data_bitmap_offset
          /\ a.offset < BLOCK_SIZE
          /\ a.bit < 8
    /\ (last.op = "calc_data_bitmap_addr" /\ last.r.ok) =>
          /\ l.data_bitmap_offset <= a.addr + a.offset
          /\ a.addr + a.offset < l.inode_offset
          /\ a.offset < BLOCK_SIZE
          /\ a.bit < 8
    /\ (last.op = "calc_inode_block_addr" /\ last.r.ok) =>
          /\ l.inode_offset <= INodeRecordStart(a)
          /\ INodeRecordStart(a) + INODE_SIZE <= l.data_offset
    /\ (last.op = "calc_data_addr" /\ last.r.ok) =>
          /\ a = l.data_offset + n * BLOCK_SIZE
          /\ l.data_offset <= a
          /\ a + BLOCK_SIZE = l.data_offset + (n + 1) * BLOCK_SIZE
          /\ a + BLOCK_SIZE <= l.size

\* the last inode of a table whose last block is partly filled
C18_Witness ==
    /\ last.op = "calc_inode_block_addr"
    /\ fs.layout.inode_count = INODES_PER_BLOCK + 1
    /\ last.arg = INODES_PER_BLOCK
    /\ last.r.ok

----------------------------------------------------------------------------
(* C19 *)

\* C19: a mount fails with the superblock error, and leaves no driver,
\* whenever the first four bytes of block 0 differ from "vsfs"; a mount that
\* succeeds found the magic and built its Layout from the inode_count and
\* data_block_count stored in block 0.
C19_MountChecksMagic ==
    last.op = "mount" =>
        /\ prev.sb.magic # MAGIC =>
              /\ ~last.r.ok
              /\ last.r.err = "SuperBlockError"
              /\ fs = prev
        /\ last.r.ok =>
              /\ prev.sb.magic = MAGIC
              /\ fs.sb = prev.sb
              /\ fs.layout = Layout_new(prev.sb.inode_count, prev.sb.data_block_count)
              /\ fs.layout.inode_count = prev.sb.inode_count
              /\ fs.layout.data_block_count = prev.sb.data_block_count

\* a mount refused for a magic that differs from "vsfs" in its last byte only
C19_Witness ==
    /\ last.op = "mount"
    /\ prev.sb.magic = <<118, 115, 102, 116>>
    /\ ~last.r.ok
    /\ \E i \in 1..Len(hist) : hist[i].op = "mount" /\ hist[i].r.ok

----------------------------------------------------------------------------
(* C20 *)

\* the calls of hist before the last one that formatted with the options arg
FormatsWith(arg) ==
    {i \in 1..(Len(hist) - 1) : hist[i].op = "format_volume" /\ hist[i].arg = arg /\ hist[i].r.ok}

\* C20: a format_volume with given options, on a device formatted before
\* with the same options and used or not since, leaves the Layout and the
\* superblock counts of those options, the same result as the earlier format,
\* and a root directory holding exactly "." and ".."; formatting again right
\* after a format with the same options changes nothing, and a mount that
\* follows a format reads back the counts that were given to format_volume.
C20_FormatTwice ==
    /\ (last.op = "format_volume" /\ last.r.ok) =>
          /\ fs.sb = [magic |-> MAGIC, inode_count |-> last.arg[1],
                      data_block_count |-> last.arg[2]]
          /\ fs.layout = Layout_new(last.arg[1], last.arg[2])
          /\ fs.root_inode = FormatRootINode
          /\ Pairs(iter_all(fs, ROOT_INODE_IDX)) =
                <<(<<ROOT_INODE_IDX, DotName>>), (<<ROOT_INODE_IDX, DotDotName>>)>>
          /\ iter_all(fs, ROOT_INODE_IDX).err = ""
          /\ \A i \in FormatsWith(last.arg) : hist[i].r = last.r
          /\ (Len(hist) - 1) \in FormatsWith(last.arg) => fs = prev
          /\ FileSystem_new(fs, TRUE).r.ok
          /\ FileSystem_new(fs, TRUE).fs.layout.inode_count = last.arg[1]
          /\ FileSystem_new(fs, TRUE).fs.layout.data_block_count = last.arg[2]
    /\ (Len(hist) > 1 /\ last.op = "mount" /\ hist[Len(hist) - 1].op = "format_volume") =>
          /\ last.r.ok
          /\ fs.layout.inode_count = hist[Len(hist) - 1].arg[1]
          /\ fs.layout.data_block_count = hist[Len(hist) - 1].arg[2]
          /\ fs.sb = prev.sb

\* a volume with an allocated inode formatted with the options of its first
\* format, then mounted
C20_Witness ==
    /\ Len(hist) = 4
    /\ hist[2].op = "create_inode" /\ hist[2].r.ok
    /\ hist[3].op = "format_volume" /\ hist[3].arg = hist[1].arg
    /\ last.op = "mount" /\ last.arg = TRUE /\ last.r.ok
    /\ fs.layout.inode_count = hist[1].arg[1]

----------------------------------------------------------------------------
(* C21 *)

\* the device addresses of the bitmap bytes, inode records and data blocks
\* that differ between the volumes f and g of one layout
ChangedAddrs(f, g) ==
    LET l == f.layout IN
    {l.inode_bitmap_offset + i : i \in {j \in DOMAIN f.ibm : f.ibm[j] # g.ibm[j]}}
    \cup {l.data_bitmap_offset + i : i \in {j \in DOMAIN f.dbm : f.dbm[j] # g.dbm[j]}}
    \cup {l.inode_offset + (i \div INODES_PER_BLOCK) * BLOCK_SIZE + (i % INODES_PER_BLOCK) * INODE_SIZE :
             i \in {j \in DOMAIN f.itab : f.itab[j] # g.itab[j]}}
    \cup {l.data_offset + k * BLOCK_SIZE : k \in {j \in DOMAIN f.dblk : f.dblk[j] # g.dblk[j]}}

\* C21: after format_volume no operation of the driver (create_inode,
\* write_inode, write_data_block, allocate_data_block, growth by write,
\* create_file, directory iteration) changes a byte of block 0: the
\* superblock stays as format_volume wrote it and every byte an operation
\* changes lies at BLOCK_SIZE or beyond.
C21_SuperBlockWrittenOnce ==
    /\ fs.sb = [magic |-> MAGIC, inode_count |-> hist[1].arg[1],
                data_block_count |-> hist[1].arg[2]]
    /\ Len(hist) > 1 =>
          /\ fs.layout = prev.layout
          /\ \A k \in 0..Len(SuperBlockBytes(prev.sb)) : DeviceByte(fs, 0, k) = DeviceByte(prev, 0, k)
          /\ \A a \in ChangedAddrs(prev, fs) : a >= BLOCK_SIZE

\* a create_file that changed both bitmaps, the inode table and a data block
C21_Witness ==
    /\ last.op = "create_file"
    /\ last.r.ok
    /\ prev.ibm # fs.ibm
    /\ prev.itab # fs.itab
    /\ prev.dblk # fs.dblk
    /\ Cardinality(ChangedAddrs(prev, fs)) >= 3

----------------------------------------------------------------------------
(* C22 *)

\* the direct slots that hold data of an inode of the given size
SlotsInUse(inode) == 1..Min(DivCeil(inode.size, BLOCK_SIZE), IMMEDIATE_BLOCK_COUNT)

\* C22: in every state reached through format_volume, create_file and growth
\* by write, every allocated inode's size is consistent with its blocks: each
\* of the first ceil(size / BLOCK_SIZE) direct slots (up to 12) holds a data
\* block index other than 0 (0 is an unassigned slot), below
\* data_block_count, whose data bitmap bit is set.
C22_SizeConsistentWithBlocks ==
    OnlyOps(hist, {"create_file", "write"}) =>
        \A i \in DOMAIN fs.itab :
            INodeMapBit(fs, i) = 1 =>
                \A k \in SlotsInUse(fs.itab[i]) :
                    /\ fs.itab[i].blocks[k] # BLOCK_NOT_SET
                    /\ fs.itab[i].blocks[k] < fs.layout.data_block_count
                    /\ DataBit(fs, fs.itab[i].blocks[k]) = 1

----------------------------------------------------------------------------
(* C23 *)

\* C23: read_block(addr) hands out exactly the BLOCK_SIZE device bytes at
\* addr and write_block(addr) stores exactly the scratch buffer there,
\* leaving every other block as it was; when the device moves fewer than
\* BLOCK_SIZE bytes the call fails with ReadError or WriteError.
C23_RawBlockTransfers ==
    /\ last.op = "read_block_raw" =>
          /\ last.r.ok <=> last.arg[2] = BLOCK_SIZE
          /\ last.r.ok => last.r.val = DeviceBlock(prev, last.arg[1]) /\ fs = prev
          /\ ~last.r.ok => last.r.err = "ReadError"
    /\ last.op = "write_block_raw" =>
          /\ last.r.ok <=> last.arg[3] = BLOCK_SIZE
          /\ last.r.ok =>
                /\ DeviceBlock(fs, last.arg[1]) = last.arg[2]
                /\ \A a \in RegionBlocks(fs.layout) \ {last.arg[1]} :
                      DeviceBlock(fs, a) = DeviceBlock(prev, a)
          /\ ~last.r.ok => last.r.err = "WriteError"

\* a read that came one byte short, after a block was written in full
C23_Witness ==
    /\ Len(hist) = 3
    /\ hist[2].op = "write_block_raw" /\ hist[2].r.ok
    /\ last.op = "read_block_raw"
    /\ last.arg[1] = hist[2].arg[1]
    /\ last.arg[2] = BLOCK_SIZE - 1
    /\ ~last.r.ok

----------------------------------------------------------------------------
(* C24 *)

\* C24: every read_block through a readable inode at a byte offset that is
\* not an exact multiple of BLOCK_SIZE is rejected with InvalidOffset,
\* whatever the offset and the inode's size.
C24_UnalignedReadRejected ==
    (/\ last.op = "read_block"
     /\ read_inode(prev, last.arg[1]).ok
     /\ last.arg[2] % BLOCK_SIZE # 0) =>
        ~last.r.ok /\ last.r.err = "InvalidOffset"

----------------------------------------------------------------------------
(* C26 *)

\* the operations that reach a todo!() of the source
AbortingOps == {"read_block", "write", "file_write"}

\* C26: no operation of the core aborts: a read at an offset at or beyond
\* 12 * BLOCK_SIZE, a growth by write and File::write all end by returning a
\* result or an error value, never by panicking.
C26_NoOperationPanics ==
    \A i \in 1..Len(hist) :
        hist[i].op \in AbortingOps => (hist[i].r.ok \/ hist[i].r.err # "Panic")

----------------------------------------------------------------------------
(* C25 *)

\* the inode indices below inode_count whose bitmap bit is clear
FreeINodes(f) == {i \in 0..(f.layout.inode_count - 1) : INodeMapBit(f, i) = 0}

\* C25: create_inode scans the whole inode bitmap and returns the last free
\* index it finds: it succeeds when an index below inode_count has a clear
\* bitmap bit, and the index it returns is the greatest such index, for
\* every inode_count.
C25_CreateInodeLastFree ==
    (last.op = "create_inode" /\ FreeINodes(prev) # {}) =>
        /\ last.r.ok
        /\ last.r.val \in FreeINodes(prev)
        /\ \A i \in FreeINodes(prev) : i <= last.r.val

----------------------------------------------------------------------------
(* C27 *)

\* C27: when every inode index below inode_count has its bitmap bit set,
\* create_inode fails with OutOfINodes and changes neither the inode bitmap
\* nor the inode table.
C27_CreateInodeFullBitmap ==
    (last.op = "create_inode" /\ FreeINodes(prev) = {}) =>
        /\ ~last.r.ok
        /\ last.r.err = "OutOfINodes"
        /\ fs.ibm = prev.ibm
        /\ fs.itab = prev.itab


----------------------------------------------------------------------------
(* C28 *)

\* the inode index call c writes to: the idx argument of write_inode, the
\* index a successful create_inode returns, -1 for a create_inode that fails
TargetOf(c) ==
    IF c.op = "write_inode" THEN c.arg[1]
    ELSE IF c.op = "create_inode" /\ c.r.ok THEN c.r.val
    ELSE 0 - 1

\* C28: an inode written with write_inode(idx, x) stays readable: after any
\* later sequence of write_inode and create_inode calls that target other
\* indices, read_inode(idx) succeeds and returns x.
C28_WrittenINodeStaysReadable ==
    \A i \in 2..Len(hist) :
        (/\ hist[i].op = "write_inode"
         /\ hist[i].r.ok
         /\ \A j \in (i + 1)..Len(hist) :
               /\ hist[j].op \in {"write_inode", "create_inode"}
               /\ TargetOf(hist[j]) # hist[i].arg[1])
        => read_inode(fs, hist[i].arg[1]) = Ok(hist[i].arg[2])


----------------------------------------------------------------------------
(* C29 *)

\* C29: write_inode(idx, inode) is a read-modify-write of the block of the
\* inode table: it changes only the record of idx; every other inode record,
\* those of the same block included, and everything outside the inode table
\* and the inode bitmap (superblock, data bitmap, data blocks) is unchanged.
C29_WriteInodeFrame ==
    last.op = "write_inode" =>
        /\ DOMAIN fs.itab = DOMAIN prev.itab
        /\ \A j \in DOMAIN prev.itab : j # last.arg[1] => fs.itab[j] = prev.itab[j]
        /\ last.r.ok => fs.itab[last.arg[1]] = last.arg[2]
        /\ fs.sb = prev.sb
        /\ fs.layout = prev.layout
        /\ fs.dbm = prev.dbm
        /\ fs.dblk = prev.dblk

\* a write_inode that changed a record of a block holding another record
C29_Witness ==
    /\ last.op = "write_inode"
    /\ last.r.ok
    /\ fs.itab[last.arg[1]] # prev.itab[last.arg[1]]
    /\ \E j \in DOMAIN prev.itab :
          /\ j # last.arg[1]
          /\ j \div INODES_PER_BLOCK = last.arg[1] \div INODES_PER_BLOCK
          /\ prev.itab[j] # ZeroINode
          /\ fs.itab[j] = prev.itab[j]
    /\ \E k \in DOMAIN prev.dblk : prev.dblk[k] # <<>> /\ fs.dblk[k] = prev.dblk[k]


----------------------------------------------------------------------------
(* C30 *)

\* C30: after format_volume and after any sequence of successful write_inode
\* calls, the cached root inode of the driver, the one root_dir() hands out,
\* equals the record the inode table holds at ROOT_INODE_IDX; and a write_inode
\* to an index other than ROOT_INODE_IDX leaves the cached root inode as it
\* was.
C30_CachedRootINode ==
    /\ (\A i \in 2..Len(hist) : hist[i].op = "write_inode" /\ hist[i].r.ok)
          => fs.root_inode = fs.itab[ROOT_INODE_IDX]
    /\ (last.op = "write_inode" /\ last.arg[1] # ROOT_INODE_IDX)
          => fs.root_inode = prev.root_inode

\* the root inode rewritten after a write_inode to another index
C30_Witness ==
    /\ Len(hist) = 3
    /\ hist[2].op = "write_inode" /\ hist[2].r.ok /\ hist[2].arg[1] # ROOT_INODE_IDX
    /\ hist[3].op = "write_inode" /\ hist[3].r.ok /\ hist[3].arg[1] = ROOT_INODE_IDX
    /\ prev.root_inode = FormatRootINode
    /\ fs.root_inode = RegularINode
    /\ fs.itab[ROOT_INODE_IDX] = RegularINode


----------------------------------------------------------------------------
(* C31 *)

\* the byte offset in the directory's data an iterator stands at
ItPos(it) == it.offset + it.block_offset

\* next() returned None, or an error of the driver
IterEnded ==
    /\ last.op = "next"
    /\ \/ last.r.ok /\ ~last.r.val.some
       \/ ~last.r.ok /\ last.r.err # "Panic"

\* the iterator the last call was given
ItBefore == hist[Len(hist) - 1].arg

\* C31: directory iteration always terminates: for every directory content
\* and recorded size, repeated calls of next() return None or an error after
\* finitely many calls (a call that yields an entry moves the iterator
\* forward, and a call does not abort), and a next() called with the
\* iterator at or past the directory's size returns None without error.
C31_IterationTerminates ==
    last.op = "next" =>
        /\ last.r.ok /\ last.r.val.some => ItPos(last.arg) > ItPos(ItBefore)
        /\ ~(last.r.ok /\ last.r.val.some) => IterEnded
        /\ ItPos(ItBefore) >= RootSize(fs) => last.r.ok /\ ~last.r.val.some

----------------------------------------------------------------------------
(* C32 *)

\* C32: directory iteration is bounded by the directory inode's recorded
\* size: every entry next() yields has its 6-byte header and all of its
\* name_len name bytes inside the first size bytes of the directory's data;
\* the entry ends where the call leaves the iterator.
C32_EntriesInsideSize ==
    (last.op = "next" /\ last.r.ok /\ last.r.val.some) =>
        /\ ItPos(last.arg) - last.r.val.name_len <= RootSize(fs)
        /\ ItPos(last.arg) <= RootSize(fs)

----------------------------------------------------------------------------
(* C33 *)

\* the number of the call that wrote the directory being iterated, the one
\* right before iter()
EntriesCall == CHOOSE w \in 1..Len(hist) : hist[w + 1].op = "iter_new"

\* next() number k on the records seq: record k with its name, the iterator
\* left at the byte after it; None after the last record
YieldsRecord(seq, k) ==
    IF k <= Len(seq)
    THEN /\ last.r.ok
         /\ last.r.val.some
         /\ last.r.val.inode_idx = seq[k].inode_idx
         /\ last.r.val.name = seq[k].name
         /\ ItPos(last.arg) = Len(EntriesImage(SubSeq(seq, 1, k), 1, <<>>).val)
         /\ ItPos(ItBefore) = Len(EntriesImage(SubSeq(seq, 1, k - 1), 1, <<>>).val)
    ELSE last.r.ok /\ ~last.r.val.some

RecordsEnd(seq, k) == Len(EntriesImage(SubSeq(seq, 1, k), 1, <<>>).val)

\* every record of seq lies inside one block of the directory's data
InsideBlocks(seq) ==
    \A k \in 1..Len(seq) :
        RecordsEnd(seq, k - 1) \div BLOCK_SIZE = (RecordsEnd(seq, k) - 1) \div BLOCK_SIZE

----------------------------------------------------------------------------
(* C34 *)

\* the direct slots of `inode` below slot number n that hold no block
UnsetBelow(inode, n) ==
    {i \in 1..Min(n, IMMEDIATE_BLOCK_COUNT) : inode.blocks[i] = None}

\* C34: grow_inode_data_size(inode, new_size) with new_size >= inode.size and
\* at most 12 blocks needed leaves every assigned direct slot unchanged and
\* touches no slot at or above ceil(new_size / BLOCK_SIZE); when it succeeds
\* each unassigned slot below that count holds a newly allocated data block
\* (its bitmap bit was clear and is set), different from the block of every
\* other slot.  With new_size < inode.size it fails and allocates nothing.
C34_GrowFillsSlots ==
    last.op = "grow_inode_data_size" =>
        LET before == last.arg[1]
            new_size == last.arg[2]
            after == last.arg[3]
            n == DivCeil(new_size, BLOCK_SIZE)
        IN IF new_size < before.size
           THEN ~last.r.ok /\ fs = prev /\ after = before
           ELSE n <= IMMEDIATE_BLOCK_COUNT =>
                /\ \A i \in 1..IMMEDIATE_BLOCK_COUNT :
                      (before.blocks[i] # None \/ i > n) => after.blocks[i] = before.blocks[i]
                /\ last.r.ok =>
                      \A i \in UnsetBelow(before, n) :
                          /\ after.blocks[i] # None
                          /\ after.blocks[i] < fs.sb.data_block_count
                          /\ DataBit(prev, after.blocks[i]) = 0
                          /\ DataBit(fs, after.blocks[i]) = 1
                          /\ \A j \in 1..IMMEDIATE_BLOCK_COUNT :
                                j # i => after.blocks[j] # after.blocks[i]

\* an inode with its second slot assigned grown to three blocks
C34_Witness ==
    /\ last.op = "grow_inode_data_size"
    /\ last.r.ok
    /\ last.arg[1].blocks[2] = 1
    /\ last.arg[2] = 2 * BLOCK_SIZE + 1
    /\ UnsetBelow(last.arg[1], 3) = {1, 3}
    /\ UnsetBelow(last.arg[3], 3) = {}
    /\ last.arg[3].blocks[2] = 1

----------------------------------------------------------------------------
(* C35 *)

\* C35: the root directory stays mountable: after any sequence of
\* create_inode and create_file calls on a formatted volume, read_inode(2)
\* succeeds and returns the root directory inode, the one the driver caches,
\* and a mount with read_root_inode = true succeeds.
C35_RootStaysMountable ==
    OnlyOps(hist, {"create_inode", "create_file"}) =>
        /\ read_inode(fs, ROOT_INODE_IDX).ok
        /\ read_inode(fs, ROOT_INODE_IDX).val = fs.root_inode
        /\ is_dir([inode |-> read_inode(fs, ROOT_INODE_IDX).val])
        /\ FileSystem_new(fs, TRUE).r.ok

----------------------------------------------------------------------------
(* C36 *)

----------------------------------------------------------------------------
(* C37 *)

\* C37: converting a logical INode to a PhysicalINode and back yields the
\* same inode for every inode whose slots are unset or hold a data block
\* index in 0..data_block_count, data block 0 included; and converting a
\* physical inode to a logical one and back yields the same physical inode.
C37_INodeRoundTrip ==
    last.op \in {"inode_round_trip", "physical_round_trip"} => last.r.val = last.arg

----------------------------------------------------------------------------
(* The in-memory devices: Cursor of the io crate and Cursor of vsfs.  Under *)
(* SpecCursor the variable fs holds a cursor over its buffer; positions    *)
(* stay far below the width of usize and u64.                              *)

Cursor_new(kind, data) == [kind |-> kind, data |-> data, pos |-> 0]

Cursor_copy(c, end) == SubSeq(c.data, c.pos + 1, end)

\* io crate: a position past the end reads nothing
IoCursor_read(c, buf_len) ==
    IF c.pos > Len(c.data) THEN [fs |-> c, r |-> Ok(0), buf |-> <<>>]
    ELSE LET data_slice == Cursor_copy(c, Min(c.pos + buf_len, Len(c.data)))
         IN [fs |-> [c EXCEPT !.pos = @ + Len(data_slice)],
             r |-> Ok(Len(data_slice)),
             buf |-> data_slice]

\* vsfs: the slice start..end is taken unchecked and panics when start > end
VsfsCursor_read(c, buf_len) ==
    LET end == Min(c.pos + buf_len, Len(c.data)) IN
    IF c.pos > end THEN [fs |-> c, r |-> Err("Panic"), buf |-> <<>>]
    ELSE LET data_slice == Cursor_copy(c, end)
         IN [fs |-> [c EXCEPT !.pos = @ + Len(data_slice)],
             r |-> Ok(Len(data_slice)),
             buf |-> data_slice]

Cursor_store(c, buf) ==
    [c EXCEPT !.data = [i \in 1..Len(c.data) |->
                           IF i > c.pos /\ i <= c.pos + Len(buf)
                           THEN buf[i - c.pos] ELSE c.data[i]],
              !.pos = c.pos + Len(buf)]

IoCursor_write(c, buf) ==
    IF c.pos > Len(c.data) THEN [fs |-> c, r |-> Ok(0)]
    ELSE IF c.pos + Len(buf) > Len(c.data)
         THEN [fs |-> c, r |-> Err("write past end of array")]
         ELSE [fs |-> Cursor_store(c, buf), r |-> Ok(Len(buf))]

VsfsCursor_write(c, buf) ==
    IF c.pos + Len(buf) > Len(c.data) THEN [fs |-> c, r |-> Err("SizeError")]
    ELSE [fs |-> Cursor_store(c, buf), r |-> Ok(Len(buf))]

\* the position a seek asks for: checked_add_signed is None below 0
SeekTarget(c, whence, v) ==
    CASE whence = "Start" -> v
      [] whence = "End" -> Len(c.data) + v
      [] OTHER -> c.pos + v

Cursor_seek(c, whence, v) ==
    LET new_pos == SeekTarget(c, whence, v) IN
    IF new_pos < 0
    THEN [fs |-> c,
          r |-> Err(IF c.kind = "vsfs" THEN "SizeError"
                    ELSE IF whence = "End" THEN "seek end out of range"
                    ELSE "seek current out of range")]
    ELSE [fs |-> [c EXCEPT !.pos = new_pos], r |-> Ok(new_pos)]

Cursor_read(c, buf_len) ==
    IF c.kind = "io" THEN IoCursor_read(c, buf_len) ELSE VsfsCursor_read(c, buf_len)

Cursor_write(c, buf) ==
    IF c.kind = "io" THEN IoCursor_write(c, buf) ELSE VsfsCursor_write(c, buf)

CursorKinds == {"io", "vsfs"}

CursorBufs == {[i \in 1..n |-> 6 + i] : n \in 0..(MaxCursorLen + 1)}

CursorSeeks ==
    ({"Start"} \X (0..(MaxCursorLen + 1)))
        \cup ({"End", "Current"} \X ((0 - MaxCursorLen - 1)..1))

InitCursor ==
    \E kind \in CursorKinds, n \in 0..MaxCursorLen :
        /\ fs = Cursor_new(kind, [i \in 1..n |-> 0])
        /\ prev = fs
        /\ hist = <<Call("new", <<kind, n>>, Ok(0))>>

CursorReadCall(n, res) == Step("read", n, [fs |-> res.fs, r |-> res.r])

CursorRead ==
    \E n \in 0..(MaxCursorLen + 1) : CursorReadCall(n, Cursor_read(fs, n))

CursorWrite ==
    \E buf \in CursorBufs : Step("write", buf, Cursor_write(fs, buf))

CursorSeek ==
    \E s \in CursorSeeks : Step("seek", s, Cursor_seek(fs, s[1], s[2]))

NextCursor ==
    \/ Len(hist) <= MaxCursorOps /\ CursorRead
    \/ Len(hist) <= MaxCursorOps /\ CursorWrite
    \/ Len(hist) <= MaxCursorOps /\ CursorSeek

SpecCursor == InitCursor /\ [][NextCursor]_vars

----------------------------------------------------------------------------
(* C38 *)

\* C38: write_data_block(k, data) that succeeds stores data in data block k,
\* sets the data bitmap bit of k, and leaves the bitmap bit and the content
\* of every other data block unchanged.
C38_WriteDataBlockFrame ==
    (last.op = "write_data_block" /\ last.r.ok) =>
        /\ fs.dblk[last.arg[1]] = TrimZeros(last.arg[2])
        /\ DataBit(fs, last.arg[1]) = 1
        /\ \A j \in 0..(fs.sb.data_block_count - 1) :
              j # last.arg[1] =>
                  /\ DataBit(fs, j) = DataBit(prev, j)
                  /\ fs.dblk[j] = prev.dblk[j]

----------------------------------------------------------------------------
(* C39 *)

\* C39: a cursor write that would extend past the end of the buffer returns
\* an error and leaves buffer and position unchanged; a seek that would land
\* before byte 0 fails and leaves the position unchanged; a read at or
\* beyond the end returns 0 bytes without error.
C39_CursorEdges ==
    /\ (last.op = "write" /\ prev.pos + Len(last.arg) > Len(prev.data)) =>
           /\ ~last.r.ok
           /\ last.r.err # "Panic"
           /\ fs = prev
    /\ (last.op = "seek" /\ SeekTarget(prev, last.arg[1], last.arg[2]) < 0) =>
           /\ ~last.r.ok
           /\ last.r.err # "Panic"
           /\ fs.pos = prev.pos
    /\ (last.op = "read" /\ prev.pos >= Len(prev.data)) =>
           last.r = Ok(0)

====
